---- MODULE Spec2Model ----
(***************************************************************************)
(* A model of the 16-bit virtual machine: the Device implementations       *)
(* (Memory, BankedMemory, MemoryMapper, Screen), the CPU's fetch/execute   *)
(* loop with its stack, calling convention and interrupts.                 *)
(*                                                                         *)
(* Representation.  A byte array that Rust creates zero-filled             *)
(* (vec![0; size]) is kept as its length and the function from the         *)
(* addresses holding a non-zero byte to that byte; an address outside the  *)
(* function's domain and below the length reads 0.  Two arrays are equal   *)
(* exactly when these functions are equal.                                 *)
(*                                                                         *)
(* A Rust panic ends the process.  Operations that can panic return a      *)
(* record with a field ok; the CPU state record carries the field          *)
(* panicked, and every CPU operation applied to a panicked state leaves it *)
(* as it is (nothing runs after the panic).                                *)
(*                                                                         *)
(* u16 arithmetic written with +, -, *, << and >> panics on overflow when  *)
(* the build has overflow checks (debug profile) and wraps otherwise       *)
(* (release profile); the variable overflow_checks holds the profile.      *)
(***************************************************************************)
EXTENDS Integers, Sequences, FiniteSets, TLC

VARIABLES
    memory,                   \* CPU.memory: the Device the CPU runs on
    registers,                \* CPU.registers: a 28-byte Memory
    stack_frame_size,         \* CPU.stack_frame_size
    is_in_interrupt_handler,  \* CPU.is_in_interrupt_handler
    panicked,                 \* the process has panicked
    halted,                   \* step() has returned true: run() has returned
    overflow_checks,          \* build profile: TRUE = u16 overflow panics
    frames,                   \* history: what each push_state saved, and the step that popped it
    history,                  \* history: per step taken, the state before it and its opcode
    dut,                      \* SpecDevice: the Device the calls are made on
    written,                  \* SpecDevice, history: the byte last written per bank and address
    mapped,                   \* SpecDevice, history: the map() calls, oldest first
    call,                     \* SpecDevice, history: the last call, the device before it, its result
    expression,               \* SpecParser: the flat list square_bracket_expression collected
    grouped,                  \* SpecParser: what group_binary_operations made of it
    combinator,               \* SpecCombinator: the Parser that is run
    input,                    \* SpecCombinator: the text it is run on
    parsed,                   \* SpecCombinator: the index it was run at and its ParseResult
    source,                   \* SpecAssembler: the statements of the program, in order
    ast,                      \* SpecAssembler: what the statement parsers made of them
    compiled                  \* SpecAssembler: what compilation made of the statements

vars == <<memory, registers, stack_frame_size, is_in_interrupt_handler, panicked,
          halted, overflow_checks, frames, history, dut, written, mapped, call,
          expression, grouped, combinator, input, parsed, source, ast, compiled>>

\* the variables of the specifications of the parser combinators and of the
\* assembler, where another specification leaves them alone
NotRun == <<>>
AssemblerIdle ==
    /\ combinator = NotRun
    /\ input = <<>>
    /\ parsed = NotRun
    /\ source = <<>>
    /\ ast = NotRun
    /\ compiled = NotRun

AssemblerUnchanged == UNCHANGED <<combinator, input, parsed, source, ast, compiled>>

U8 == 2^8
U16 == 2^16

(***************************************************************************)
(* Byte arrays                                                             *)
(***************************************************************************)
NoBytes == [x \in {} |-> 0]

Byte(cells, a) == IF a \in DOMAIN cells THEN cells[a] ELSE 0

PutByte(cells, a, v) ==
    IF v = 0
    THEN [x \in DOMAIN cells \ {a} |-> cells[x]]
    ELSE [x \in DOMAIN cells \cup {a} |-> IF x = a THEN v ELSE cells[x]]

Hi(v) == v \div U8
Lo(v) == v % U8

\* u16::from_be_bytes
from_be_bytes(b0, b1) == b0 * U8 + b1

\* u16::to_be_bytes
to_be_bytes(v) == <<Hi(v), Lo(v)>>

\* K applied to the value of e, which is computed once
Let(e, K(_)) == CHOOSE r \in {K(v) : v \in {e}} : TRUE

Val(v) == [ok |-> TRUE, v |-> v]
NoVal == [ok |-> FALSE, v |-> 0]
Dev(d) == [ok |-> TRUE, d |-> d]
Broken(d) == [ok |-> FALSE, d |-> d]

(***************************************************************************)
(* device/memory.rs                                                        *)
(***************************************************************************)
Memory_new(size) == [kind |-> "Memory", len |-> size, memory |-> NoBytes]

Memory_get_u8(m, address) ==
    IF address < m.len THEN Val(Byte(m.memory, address)) ELSE NoVal

Memory_set_u8(m, address, value) ==
    IF address < m.len
    THEN Dev([m EXCEPT !.memory = PutByte(@, address, value)])
    ELSE Broken(m)

Memory_get_u16(m, address) ==
    IF address + 1 < m.len
    THEN Val(from_be_bytes(Byte(m.memory, address), Byte(m.memory, address + 1)))
    ELSE NoVal

\* set_u16 writing the low byte first
Memory_set_u16_little_endian(m, address, value) ==
    Let(Memory_set_u8(m, address, to_be_bytes(value)[2]), LAMBDA first :
    IF first.ok THEN Memory_set_u8(first.d, address + 1, to_be_bytes(value)[1])
    ELSE first)

\* The loop writes the high byte at address, then the low byte at address + 1;
\* an index past the end panics after the bytes before it were written.
Memory_set_u16(m, address, value) ==
    Let(Memory_set_u8(m, address, to_be_bytes(value)[1]), LAMBDA first :
    IF first.ok THEN Memory_set_u8(first.d, address + 1, to_be_bytes(value)[2])
    ELSE first)

Memory_len(m) == Val(m.len)

Memory_set_mb(m, mb) == m

(***************************************************************************)
(* device/banked_memory.rs                                                 *)
(***************************************************************************)
BankedMemory_new(count, size) ==
    [kind |-> "BankedMemory", mb |-> 0,
     banks |-> [i \in 1..count |-> Memory_new(size)], size |-> size]

\* self.banks[self.mb as usize]: bank mb is the (mb + 1)-th element of the sequence
HasBank(b) == b.mb + 1 \in DOMAIN b.banks

BankedMemory_get_u16(b, address) ==
    IF HasBank(b) THEN Memory_get_u16(b.banks[b.mb + 1], address) ELSE NoVal

BankedMemory_get_u8(b, address) ==
    IF HasBank(b) THEN Memory_get_u8(b.banks[b.mb + 1], address) ELSE NoVal

BankedMemory_set_u16(b, address, value) ==
    IF HasBank(b)
    THEN Let(Memory_set_u16(b.banks[b.mb + 1], address, value), LAMBDA r :
         [ok |-> r.ok, d |-> [b EXCEPT !.banks[b.mb + 1] = r.d]])
    ELSE Broken(b)

\* set_u8 writing to the first bank, whichever bank is selected
BankedMemory_set_u8_in_first_bank(b, address, value) ==
    IF HasBank(b)
    THEN Let(Memory_set_u8(b.banks[1], address, value), LAMBDA r :
         [ok |-> r.ok, d |-> [b EXCEPT !.banks[1] = r.d]])
    ELSE Broken(b)

BankedMemory_set_u8(b, address, value) ==
    IF HasBank(b)
    THEN Let(Memory_set_u8(b.banks[b.mb + 1], address, value), LAMBDA r :
         [ok |-> r.ok, d |-> [b EXCEPT !.banks[b.mb + 1] = r.d]])
    ELSE Broken(b)

BankedMemory_len(b) == Val(b.size)

BankedMemory_set_mb(b, mb) == [b EXCEPT !.mb = mb]

(***************************************************************************)
(* device/screen.rs: the terminal output is not part of the state          *)
(***************************************************************************)
Screen_new == [kind |-> "Screen"]

Screen_get_u16(s, address) == NoVal
Screen_get_u8(s, address) == NoVal
Screen_set_u16(s, address, value) == Dev(s)
Screen_set_u8(s, address, value) == Broken(s)
Screen_len(s) == NoVal
Screen_set_mb(s, mb) == s

(***************************************************************************)
(* device/memory_mapper.rs.  regions is the VecDeque, front first.  The    *)
(* devices of the regions are Memory, BankedMemory or Screen.              *)
(***************************************************************************)
MemoryMapper_new == [kind |-> "MemoryMapper", regions |-> <<>>]

Region(device, start, end, remap) ==
    [device |-> device, start |-> start, end |-> end, remap |-> remap]

\* map with regions.push_back(region)
map_at_back(mm, device, start, end, remap) ==
    [mm EXCEPT !.regions = Append(@, Region(device, start, end, remap))]

\* regions.push_front(region)
map(mm, device, start, end, remap) ==
    [mm EXCEPT !.regions = <<Region(device, start, end, remap)>> \o @]

Contains(region, address) == region.start <= address /\ address <= region.end

\* position of the region iter().find() returns; 0 when find() returns None
\* (the unwrap() then panics)
find_region(mm, address) ==
    Let({i \in DOMAIN mm.regions : Contains(mm.regions[i], address)}, LAMBDA hits :
    IF hits = {} THEN 0 ELSE CHOOSE i \in hits : \A j \in hits : i <= j)

find_region_mut(mm, address) == find_region(mm, address)

\* the address handed to the device, were every region remapped
DeviceAddress_always_remapped(region, address) == address - region.start

\* the address handed to the region's device
DeviceAddress(region, address) ==
    IF region.remap THEN address - region.start ELSE address

Leaf_get_u16(d, address) ==
    CASE d.kind = "Memory" -> Memory_get_u16(d, address)
      [] d.kind = "BankedMemory" -> BankedMemory_get_u16(d, address)
      [] d.kind = "Screen" -> Screen_get_u16(d, address)

Leaf_get_u8(d, address) ==
    CASE d.kind = "Memory" -> Memory_get_u8(d, address)
      [] d.kind = "BankedMemory" -> BankedMemory_get_u8(d, address)
      [] d.kind = "Screen" -> Screen_get_u8(d, address)

Leaf_set_u16(d, address, value) ==
    CASE d.kind = "Memory" -> Memory_set_u16(d, address, value)
      [] d.kind = "BankedMemory" -> BankedMemory_set_u16(d, address, value)
      [] d.kind = "Screen" -> Screen_set_u16(d, address, value)

Leaf_set_u8(d, address, value) ==
    CASE d.kind = "Memory" -> Memory_set_u8(d, address, value)
      [] d.kind = "BankedMemory" -> BankedMemory_set_u8(d, address, value)
      [] d.kind = "Screen" -> Screen_set_u8(d, address, value)

Leaf_set_mb(d, mb) ==
    CASE d.kind = "Memory" -> Memory_set_mb(d, mb)
      [] d.kind = "BankedMemory" -> BankedMemory_set_mb(d, mb)
      [] d.kind = "Screen" -> Screen_set_mb(d, mb)

MemoryMapper_get_u16(mm, address) ==
    Let(find_region(mm, address), LAMBDA i :
    IF i = 0 THEN NoVal
    ELSE Leaf_get_u16(mm.regions[i].device, DeviceAddress(mm.regions[i], address)))

MemoryMapper_get_u8(mm, address) ==
    Let(find_region(mm, address), LAMBDA i :
    IF i = 0 THEN NoVal
    ELSE Leaf_get_u8(mm.regions[i].device, DeviceAddress(mm.regions[i], address)))

MemoryMapper_set_u8(mm, address, value) ==
    Let(find_region_mut(mm, address), LAMBDA i :
    IF i = 0 THEN Broken(mm)
    ELSE Let(Leaf_set_u8(mm.regions[i].device,
                         DeviceAddress(mm.regions[i], address), value), LAMBDA r :
         [ok |-> r.ok, d |-> [mm EXCEPT !.regions[i].device = r.d]]))

\* set_u16 as two set_u8 calls, each byte going to the region of its own
\* address
MemoryMapper_set_u16_by_bytes(mm, address, value) ==
    Let(MemoryMapper_set_u8(mm, address, to_be_bytes(value)[1]), LAMBDA first :
    IF first.ok
    THEN MemoryMapper_set_u8(first.d, address + 1, to_be_bytes(value)[2])
    ELSE first)

MemoryMapper_set_u16(mm, address, value) ==
    Let(find_region_mut(mm, address), LAMBDA i :
    IF i = 0 THEN Broken(mm)
    ELSE Let(Leaf_set_u16(mm.regions[i].device,
                          DeviceAddress(mm.regions[i], address), value), LAMBDA r :
         [ok |-> r.ok, d |-> [mm EXCEPT !.regions[i].device = r.d]]))

MemoryMapper_len(mm) == Val(65535)

\* set_mb delivered only to the devices an address can still reach: the
\* regions not covered whole by a region mapped in front of them
MemoryMapper_set_mb_reachable(mm, mb) ==
    [mm EXCEPT !.regions = [i \in DOMAIN @ |->
        IF \E j \in 1 .. i - 1 : /\ @[j].start <= @[i].start
                                  /\ @[i].end <= @[j].end
        THEN @[i]
        ELSE [@[i] EXCEPT !.device = Leaf_set_mb(@, mb)]]]

MemoryMapper_set_mb(mm, mb) ==
    [mm EXCEPT !.regions = [i \in DOMAIN @ |->
                               [@[i] EXCEPT !.device = Leaf_set_mb(@, mb)]]]

(***************************************************************************)
(* device.rs: the Device trait, dispatched on the implementing type        *)
(***************************************************************************)
get_u16(d, address) ==
    IF d.kind = "MemoryMapper" THEN MemoryMapper_get_u16(d, address)
    ELSE Leaf_get_u16(d, address)

get_u8(d, address) ==
    IF d.kind = "MemoryMapper" THEN MemoryMapper_get_u8(d, address)
    ELSE Leaf_get_u8(d, address)

set_u16(d, address, value) ==
    IF d.kind = "MemoryMapper" THEN MemoryMapper_set_u16(d, address, value)
    ELSE Leaf_set_u16(d, address, value)

set_u8(d, address, value) ==
    IF d.kind = "MemoryMapper" THEN MemoryMapper_set_u8(d, address, value)
    ELSE Leaf_set_u8(d, address, value)

len(d) ==
    CASE d.kind = "MemoryMapper" -> MemoryMapper_len(d)
      [] d.kind = "Memory" -> Memory_len(d)
      [] d.kind = "BankedMemory" -> BankedMemory_len(d)
      [] d.kind = "Screen" -> Screen_len(d)

set_mb(d, mb) ==
    IF d.kind = "MemoryMapper" THEN MemoryMapper_set_mb(d, mb)
    ELSE Leaf_set_mb(d, mb)

(***************************************************************************)
(* cpu/register.rs: a register is its byte offset in the register file     *)
(***************************************************************************)
register ==
    [IP |-> 0, ACC |-> 2, R1 |-> 4, R2 |-> 6, R3 |-> 8, R4 |-> 10, R5 |-> 12,
     R6 |-> 14, R7 |-> 16, R8 |-> 18, SP |-> 20, FP |-> 22, MB |-> 24, IM |-> 26]

LIST ==
    <<register.IP, register.ACC, register.R1, register.R2, register.R3,
      register.R4, register.R5, register.R6, register.R7, register.R8,
      register.SP, register.FP, register.MB, register.IM>>

GENERAL_PURPOSE_LIST ==
    <<register.R1, register.R2, register.R3, register.R4,
      register.R5, register.R6, register.R7, register.R8>>

SIZE == Len(LIST) * 2

(***************************************************************************)
(* cpu/instruction.rs: the instruction table                               *)
(***************************************************************************)
LIT_REG == 4
REG_LIT == 4
REG_LIT8 == 3
REG_REG == 3
REG_MEM == 4
MEM_REG == 4
LIT_MEM == 5
REG_PTR_REG == 3
LIT_OFF_REG == 5
NONE == 1
REG == 2
LIT == 3

\* INT and RET_INT are used by cpu.rs and are not in the table of
\* cpu/instruction.rs: their opcodes are only known to be distinct from the
\* others; INT takes a 16-bit literal and RET_INT takes nothing.
instruction_INT == [opcode |-> 253, size |-> LIT]
instruction_RET_INT == [opcode |-> 252, size |-> NONE]

instruction ==
    [MOVE_LIT_MEM |-> [opcode |-> 9, size |-> LIT_MEM],
     MOVE_LIT_REG |-> [opcode |-> 16, size |-> LIT_REG],
     MOVE_REG_REG |-> [opcode |-> 17, size |-> REG_REG],
     MOVE_REG_MEM |-> [opcode |-> 18, size |-> REG_MEM],
     MOVE_MEM_REG |-> [opcode |-> 19, size |-> MEM_REG],
     PSH_LIT |-> [opcode |-> 22, size |-> LIT],
     PSH_REG |-> [opcode |-> 23, size |-> REG],
     POP_REG |-> [opcode |-> 24, size |-> REG],
     CAL_LIT |-> [opcode |-> 25, size |-> LIT],
     CAL_REG |-> [opcode |-> 26, size |-> REG],
     RET |-> [opcode |-> 27, size |-> NONE],
     MOVE_REG_PTR_REG |-> [opcode |-> 28, size |-> REG_PTR_REG],
     MOVE_LIT_OFF_REG |-> [opcode |-> 29, size |-> LIT_OFF_REG],
     ADD_REG_REG |-> [opcode |-> 20, size |-> REG_REG],
     ADD_LIT_REG |-> [opcode |-> 48, size |-> LIT_REG],
     SUB_LIT_REG |-> [opcode |-> 49, size |-> LIT_REG],
     SUB_REG_LIT |-> [opcode |-> 50, size |-> REG_LIT],
     SUB_REG_REG |-> [opcode |-> 51, size |-> REG_REG],
     MUL_LIT_REG |-> [opcode |-> 52, size |-> LIT_REG],
     MUL_REG_REG |-> [opcode |-> 53, size |-> REG_REG],
     INC_REG |-> [opcode |-> 54, size |-> REG],
     DEC_REG |-> [opcode |-> 55, size |-> REG],
     LSF_REG_LIT8 |-> [opcode |-> 64, size |-> REG_LIT8],
     LSF_REG_REG |-> [opcode |-> 65, size |-> REG_REG],
     RSF_REG_LIT8 |-> [opcode |-> 66, size |-> REG_LIT8],
     RSF_REG_REG |-> [opcode |-> 67, size |-> REG_REG],
     AND_REG_LIT |-> [opcode |-> 68, size |-> REG_LIT],
     AND_REG_REG |-> [opcode |-> 69, size |-> REG_REG],
     OR_REG_LIT |-> [opcode |-> 70, size |-> REG_LIT],
     OR_REG_REG |-> [opcode |-> 71, size |-> REG_REG],
     XOR_REG_LIT |-> [opcode |-> 72, size |-> REG_LIT],
     XOR_REG_REG |-> [opcode |-> 73, size |-> REG_REG],
     NOT_REG |-> [opcode |-> 74, size |-> REG],
     JNE_LIT_MEM |-> [opcode |-> 80, size |-> LIT_MEM],
     JNE_REG_MEM |-> [opcode |-> 81, size |-> REG_MEM],
     JEQ_LIT_MEM |-> [opcode |-> 82, size |-> LIT_MEM],
     JEQ_REG_MEM |-> [opcode |-> 83, size |-> REG_MEM],
     JGT_LIT_MEM |-> [opcode |-> 84, size |-> LIT_MEM],
     JGT_REG_MEM |-> [opcode |-> 85, size |-> REG_MEM],
     JLT_LIT_MEM |-> [opcode |-> 86, size |-> LIT_MEM],
     JLT_REG_MEM |-> [opcode |-> 87, size |-> REG_MEM],
     JGE_LIT_MEM |-> [opcode |-> 88, size |-> LIT_MEM],
     JGE_REG_MEM |-> [opcode |-> 89, size |-> REG_MEM],
     JLE_LIT_MEM |-> [opcode |-> 90, size |-> LIT_MEM],
     JLE_REG_MEM |-> [opcode |-> 91, size |-> REG_MEM],
     HLT |-> [opcode |-> 255, size |-> NONE],
     INT |-> instruction_INT,
     RET_INT |-> instruction_RET_INT]

Mnemonics == DOMAIN instruction
Opcodes == {instruction[m].opcode : m \in Mnemonics}

\* the declared size of the instruction with this opcode
SizeOf(opcode) ==
    LET m == CHOOSE n \in Mnemonics : instruction[n].opcode = opcode
    IN instruction[m].size

(***************************************************************************)
(* u16 arithmetic.  Each operator takes the CPU state s and returns the    *)
(* state (panicked on a checked overflow) and the value.                   *)
(***************************************************************************)
Panic(s) == [s EXCEPT !.panicked = TRUE]
Res(s, v) == [s |-> s, v |-> v]

add(s, a, b) ==
    IF a + b < U16 THEN Res(s, a + b)
    ELSE IF overflow_checks THEN Res(Panic(s), 0) ELSE Res(s, (a + b) % U16)

sub(s, a, b) ==
    IF a >= b THEN Res(s, a - b)
    ELSE IF overflow_checks THEN Res(Panic(s), 0) ELSE Res(s, a - b + U16)

\* the low 16 bits of a * b, computed without leaving 32-bit integers
WrappingMul(a, b) == (Lo(a) * b + (Hi(a) * b % U8) * U8) % U16

mul(s, a, b) ==
    IF a = 0 \/ b <= (U16 - 1) \div a THEN Res(s, a * b)
    ELSE IF overflow_checks THEN Res(Panic(s), 0) ELSE Res(s, WrappingMul(a, b))

\* a << n and a >> n on u16: a shift amount of 16 or more overflows; the
\* unchecked operation shifts by the amount's low four bits
shl(s, a, n) ==
    IF n < 16 THEN Res(s, (a * 2^n) % U16)
    ELSE IF overflow_checks THEN Res(Panic(s), 0) ELSE Res(s, (a * 2^(n % 16)) % U16)

shr(s, a, n) ==
    IF n < 16 THEN Res(s, a \div 2^n)
    ELSE IF overflow_checks THEN Res(Panic(s), 0) ELSE Res(s, a \div 2^(n % 16))

Bit(a, i) == (a \div 2^i) % 2

RECURSIVE Bitwise(_, _, _, _)
Bitwise(f, a, b, i) ==
    IF i = 16 THEN 0
    ELSE (IF f[Bit(a, i) + 1][Bit(b, i) + 1] THEN 2^i ELSE 0) + Bitwise(f, a, b, i + 1)

BitAnd(a, b) == Bitwise(<<<<FALSE, FALSE>>, <<FALSE, TRUE>>>>, a, b, 0)  \* a & b
BitOr(a, b) == Bitwise(<<<<FALSE, TRUE>>, <<TRUE, TRUE>>>>, a, b, 0)     \* a | b
BitXor(a, b) == Bitwise(<<<<FALSE, TRUE>>, <<TRUE, FALSE>>>>, a, b, 0)   \* a ^ b
BitNot(a) == U16 - 1 - a                                                \* !a

(***************************************************************************)
(* cpu.rs: the CPU.  A CPU state s is the record of CPU's fields, the      *)
(* panicked flag and the history of saved frames (frames, and step, the    *)
(* number of the step being taken).                                        *)
(***************************************************************************)
INTERRUPT_VECTOR_ADDRESS == 4096

registers_get_u16(s, reg) ==
    IF s.panicked THEN Res(s, 0)
    ELSE Let(Memory_get_u16(s.registers, reg), LAMBDA r :
         IF r.ok THEN Res(s, r.v) ELSE Res(Panic(s), 0))

registers_set_u16(s, reg, value) ==
    IF s.panicked THEN s
    ELSE Let(Memory_set_u16(s.registers, reg, value), LAMBDA r :
         [s EXCEPT !.registers = r.d, !.panicked = ~r.ok])

memory_get_u8(s, address) ==
    IF s.panicked THEN Res(s, 0)
    ELSE Let(get_u8(s.memory, address), LAMBDA r :
         IF r.ok THEN Res(s, r.v) ELSE Res(Panic(s), 0))

memory_get_u16(s, address) ==
    IF s.panicked THEN Res(s, 0)
    ELSE Let(get_u16(s.memory, address), LAMBDA r :
         IF r.ok THEN Res(s, r.v) ELSE Res(Panic(s), 0))

memory_set_u16(s, address, value) ==
    IF s.panicked THEN s
    ELSE Let(set_u16(s.memory, address, value), LAMBDA r :
         [s EXCEPT !.memory = r.d, !.panicked = ~r.ok])

set_register(s, reg, value) ==
    IF s.panicked THEN s
    ELSE IF reg = register.MB
         THEN Let([s EXCEPT !.memory = set_mb(@, value)], LAMBDA s1 :
              registers_set_u16(s1, reg, value))
         ELSE registers_set_u16(s, reg, value)

get_register(s, reg) == registers_get_u16(s, reg)

fetch8(s) ==
    Let(get_register(s, register.IP), LAMBDA ip :
    Let(memory_get_u8(ip.s, ip.v), LAMBDA res :
    Let(add(res.s, ip.v, 1), LAMBDA sum :
    Res(set_register(sum.s, register.IP, sum.v), res.v))))

fetch16(s) ==
    Let(get_register(s, register.IP), LAMBDA ip :
    Let(memory_get_u16(ip.s, ip.v), LAMBDA res :
    Let(add(res.s, ip.v, 2), LAMBDA sum :
    Res(set_register(sum.s, register.IP, sum.v), res.v))))

fetch_register_index(s) == fetch8(s)

\* self.stack_frame_size = value, unless the process has panicked
set_stack_frame_size(s, value) ==
    IF s.panicked THEN s ELSE [s EXCEPT !.stack_frame_size = value]

\* push_to_stack lowering SP before it stores the value
push_to_stack_below_SP(s, value) ==
    Let(get_register(s, register.SP), LAMBDA sp :
    Let(sub(sp.s, sp.v, 2), LAMBDA down :
    Let(set_register(down.s, register.SP, down.v), LAMBDA s1 :
    Let(memory_set_u16(s1, down.v, value), LAMBDA s2 :
    Let(add(s2, s2.stack_frame_size, 2), LAMBDA size :
    set_stack_frame_size(size.s, size.v))))))

push_to_stack(s, value) ==
    Let(get_register(s, register.SP), LAMBDA sp :
    Let(memory_set_u16(sp.s, sp.v, value), LAMBDA s1 :
    Let(sub(s1, sp.v, 2), LAMBDA down :
    Let(set_register(down.s, register.SP, down.v), LAMBDA s2 :
    Let(add(s2, s2.stack_frame_size, 2), LAMBDA size :
    set_stack_frame_size(size.s, size.v))))))

\* pop_from_stack without its `self.stack_frame_size -= 2`
pop_from_stack_keeping_size(s) ==
    Let(get_register(s, register.SP), LAMBDA sp :
    Let(add(sp.s, sp.v, 2), LAMBDA new_sp_address :
    Let(set_register(new_sp_address.s, register.SP, new_sp_address.v), LAMBDA s1 :
    memory_get_u16(s1, new_sp_address.v))))

pop_from_stack(s) ==
    Let(get_register(s, register.SP), LAMBDA sp :
    Let(add(sp.s, sp.v, 2), LAMBDA new_sp_address :
    Let(set_register(new_sp_address.s, register.SP, new_sp_address.v), LAMBDA s1 :
    Let(sub(s1, s1.stack_frame_size, 2), LAMBDA size :
    Let(set_stack_frame_size(size.s, size.v), LAMBDA s2 :
    memory_get_u16(s2, new_sp_address.v))))))

\* the registers of list from position i on, pushed in order
RECURSIVE push_registers(_, _, _)
push_registers(s, list, i) ==
    IF i > Len(list) THEN s
    ELSE Let(get_register(s, list[i]), LAMBDA value :
         Let(push_to_stack(value.s, value.v), LAMBDA s1 :
         push_registers(s1, list, i + 1)))

\* the registers of list from position i down, popped in reverse order
RECURSIVE pop_registers(_, _, _)
pop_registers(s, list, i) ==
    IF i < 1 THEN s
    ELSE Let(pop_from_stack(s), LAMBDA value :
         Let(set_register(value.s, list[i], value.v), LAMBDA s1 :
         pop_registers(s1, list, i - 1)))

\* what push_state saves, for the history variable frames
Saved(s) ==
    [step |-> s.step,
     SP |-> Memory_get_u16(s.registers, register.SP).v,
     FP |-> Memory_get_u16(s.registers, register.FP).v,
     IP |-> Memory_get_u16(s.registers, register.IP).v,
     stack_frame_size |-> s.stack_frame_size,
     general |-> [i \in DOMAIN GENERAL_PURPOSE_LIST |->
                     Memory_get_u16(s.registers, GENERAL_PURPOSE_LIST[i]).v],
     closed |-> 0]

\* the frames with their most recent open one closed at step
Close(fs, step) ==
    Let({i \in DOMAIN fs : fs[i].closed = 0}, LAMBDA open :
    IF open = {} THEN fs
    ELSE [fs EXCEPT ![CHOOSE i \in open : \A j \in open : j <= i].closed = step])

\* push_state pushing IP before the general-purpose registers
push_state_IP_first(s) ==
    Let(get_register(s, register.IP), LAMBDA ip :
    Let(push_to_stack(ip.s, ip.v), LAMBDA s1 :
    Let(push_registers(s1, GENERAL_PURPOSE_LIST, 1), LAMBDA s2 :
    Let(add(s2, s2.stack_frame_size, 2), LAMBDA size :
    Let(push_to_stack(size.s, size.v), LAMBDA s3 :
    Let(get_register(s3, register.SP), LAMBDA sp :
    Let(set_register(sp.s, register.FP, sp.v), LAMBDA s4 :
    IF s4.panicked THEN s4
    ELSE [s4 EXCEPT !.stack_frame_size = 0, !.frames = Append(@, Saved(s))])))))))

push_state(s) ==
    Let(push_registers(s, GENERAL_PURPOSE_LIST, 1), LAMBDA s1 :
    Let(get_register(s1, register.IP), LAMBDA ip :
    Let(push_to_stack(ip.s, ip.v), LAMBDA s2 :
    Let(add(s2, s2.stack_frame_size, 2), LAMBDA size :
    Let(push_to_stack(size.s, size.v), LAMBDA s3 :
    Let(get_register(s3, register.SP), LAMBDA sp :
    Let(set_register(sp.s, register.FP, sp.v), LAMBDA s4 :
    IF s4.panicked THEN s4
    ELSE [s4 EXCEPT !.stack_frame_size = 0, !.frames = Append(@, Saved(s))])))))))

pop_state(s) ==
    Let(get_register(s, register.FP), LAMBDA frame_pointer_address :
    Let(set_register(frame_pointer_address.s, register.SP,
                     frame_pointer_address.v), LAMBDA s1 :
    Let(set_stack_frame_size(s1, 2), LAMBDA s2 :
    Let(pop_from_stack(s2), LAMBDA size :
    Let(set_stack_frame_size(size.s, size.v), LAMBDA s3 :
    Let(pop_from_stack(s3), LAMBDA ip :
    Let(set_register(ip.s, register.IP, ip.v), LAMBDA s4 :
    Let(pop_registers(s4, GENERAL_PURPOSE_LIST, Len(GENERAL_PURPOSE_LIST)), LAMBDA s5 :
    Let(add(s5, frame_pointer_address.v, size.v), LAMBDA fp :
    Let(set_register(fp.s, register.FP, fp.v), LAMBDA s6 :
    IF s6.panicked THEN s6
    ELSE [s6 EXCEPT !.frames = Close(@, s.step)]))))))))))

\* handle_interrupt pushing the state inside a handler too
handle_interrupt_always_pushing(s, value) ==
    Let(shl(s, 1, value), LAMBDA one :
    Let(get_register(one.s, register.IM), LAMBDA im :
    IF im.s.panicked \/ BitAnd(one.v, im.v) = 0 THEN im.s
    ELSE Let(memory_get_u16(im.s, INTERRUPT_VECTOR_ADDRESS + value * 2), LAMBDA address :
         Let(push_state(address.s), LAMBDA s1 :
         Let(IF s1.panicked THEN s1
             ELSE [s1 EXCEPT !.is_in_interrupt_handler = TRUE], LAMBDA s2 :
         set_register(s2, register.IP, address.v))))))

\* handle_interrupt without the test of the interrupt mask
handle_interrupt_unmasked(s, value) ==
    Let(memory_get_u16(s, INTERRUPT_VECTOR_ADDRESS + value * 2), LAMBDA address :
    Let(IF address.s.is_in_interrupt_handler THEN address.s
        ELSE push_state(address.s), LAMBDA s1 :
    Let(IF s1.panicked THEN s1
        ELSE [s1 EXCEPT !.is_in_interrupt_handler = TRUE], LAMBDA s2 :
    set_register(s2, register.IP, address.v))))

handle_interrupt(s, value) ==
    Let(shl(s, 1, value), LAMBDA one :
    Let(get_register(one.s, register.IM), LAMBDA im :
    IF im.s.panicked \/ BitAnd(one.v, im.v) = 0 THEN im.s
    ELSE Let(memory_get_u16(im.s, INTERRUPT_VECTOR_ADDRESS + value * 2), LAMBDA address :
         Let(IF address.s.is_in_interrupt_handler THEN address.s
             ELSE push_state(address.s), LAMBDA s1 :
         Let(IF s1.panicked THEN s1
             ELSE [s1 EXCEPT !.is_in_interrupt_handler = TRUE], LAMBDA s2 :
         set_register(s2, register.IP, address.v))))))

(***************************************************************************)
(* Bounds of the model                                                     *)
(***************************************************************************)
MaxSteps == 7     \* steps run() takes before the model stops following it
MaxSetup == 1     \* register loads before the instruction under study
MaxCall == 4      \* instructions of a call/stack program
MemLen == 64      \* bytes of the flat Memory the CPU is run on
MaxInt == 3       \* instructions of an interrupt program before its handler
VectorLen == 4224 \* bytes of the flat Memory that holds an interrupt vector

(***************************************************************************)
(* The programs the CPU is started on.  A program is a sequence of         *)
(* instructions; an instruction is a mnemonic and its operands, and an     *)
(* operand is a 16-bit literal ("lit", two bytes, big-endian), a register  *)
(* ("reg", one byte), an 8-bit literal ("lit8", one byte) or the address   *)
(* of the instruction that follows ("next", two bytes) or the address of   *)
(* the program's last instruction ("sub", two bytes).  The image of a      *)
(* program is its encoding from address 0 on; the rest of the memory is 0. *)
(***************************************************************************)
OpLit(v) == [t |-> "lit", v |-> v]
OpReg(r) == [t |-> "reg", v |-> r]
OpLit8(v) == [t |-> "lit8", v |-> v]
OpNext == [t |-> "next", v |-> 0]
OpSub == [t |-> "sub", v |-> 0]

\* the operand kinds each arm of execute() fetches, in order; "mem" is a data
\* address, "code" a jump or call target, "int" an interrupt number
Form ==
    [MOVE_LIT_MEM |-> <<"lit", "mem">>, MOVE_LIT_REG |-> <<"lit", "reg">>,
     MOVE_REG_REG |-> <<"reg", "reg">>, MOVE_REG_MEM |-> <<"reg", "mem">>,
     MOVE_MEM_REG |-> <<"mem", "reg">>, PSH_LIT |-> <<"lit">>,
     PSH_REG |-> <<"reg">>, POP_REG |-> <<"reg">>, CAL_LIT |-> <<"code">>,
     CAL_REG |-> <<"reg">>, RET |-> <<>>, MOVE_REG_PTR_REG |-> <<"reg", "reg">>,
     MOVE_LIT_OFF_REG |-> <<"mem", "reg", "reg">>,
     ADD_REG_REG |-> <<"reg", "reg">>, ADD_LIT_REG |-> <<"lit", "reg">>,
     SUB_LIT_REG |-> <<"lit", "reg">>, SUB_REG_LIT |-> <<"reg", "lit">>,
     SUB_REG_REG |-> <<"reg", "reg">>, MUL_LIT_REG |-> <<"lit", "reg">>,
     MUL_REG_REG |-> <<"reg", "reg">>, INC_REG |-> <<"reg">>, DEC_REG |-> <<"reg">>,
     LSF_REG_LIT8 |-> <<"reg", "shift">>, LSF_REG_REG |-> <<"reg", "reg">>,
     RSF_REG_LIT8 |-> <<"reg", "shift">>, RSF_REG_REG |-> <<"reg", "reg">>,
     AND_REG_LIT |-> <<"reg", "lit">>, AND_REG_REG |-> <<"reg", "reg">>,
     OR_REG_LIT |-> <<"reg", "lit">>, OR_REG_REG |-> <<"reg", "reg">>,
     XOR_REG_LIT |-> <<"reg", "lit">>, XOR_REG_REG |-> <<"reg", "reg">>,
     NOT_REG |-> <<"reg">>,
     JNE_LIT_MEM |-> <<"lit", "code">>, JNE_REG_MEM |-> <<"reg", "code">>,
     JEQ_LIT_MEM |-> <<"lit", "code">>, JEQ_REG_MEM |-> <<"reg", "code">>,
     JGT_LIT_MEM |-> <<"lit", "code">>, JGT_REG_MEM |-> <<"reg", "code">>,
     JLT_LIT_MEM |-> <<"lit", "code">>, JLT_REG_MEM |-> <<"reg", "code">>,
     JGE_LIT_MEM |-> <<"lit", "code">>, JGE_REG_MEM |-> <<"reg", "code">>,
     JLE_LIT_MEM |-> <<"lit", "code">>, JLE_REG_MEM |-> <<"reg", "code">>,
     HLT |-> <<>>, INT |-> <<"int">>, RET_INT |-> <<>>]

\* the operand values the programs are drawn from
Literals == {0, 1, U16 - 1}
RegisterOperands == {register.ACC, register.R1, register.MB}
DataAddresses == {32}
InterruptNumbers == {0, 1, 15}
\* a shift amount is encoded in one byte, as the table declares (REG_LIT8),
\* or in two, as the tests of cpu.rs encode it
ShiftAmounts == {OpLit8(0), OpLit8(1), OpLit(1), OpLit(3)}

Operands(kind) ==
    CASE kind = "lit" -> {OpLit(v) : v \in Literals}
      [] kind = "reg" -> {OpReg(r) : r \in RegisterOperands}
      [] kind = "mem" -> {OpLit(a) : a \in DataAddresses}
      [] kind = "code" -> {OpLit(0), OpNext}
      [] kind = "int" -> {OpLit(n) : n \in InterruptNumbers}
      [] kind = "shift" -> ShiftAmounts

RECURSIVE Arguments(_)
Arguments(form) ==
    IF form = <<>> THEN {<<>>}
    ELSE {<<o>> \o rest : o \in Operands(Head(form)), rest \in Arguments(Tail(form))}

Instructions(m) == {[op |-> m, args |-> a] : a \in Arguments(Form[m])}

AllInstructions == UNION {Instructions(m) : m \in Mnemonics}

Width(o) == IF o.t \in {"lit", "next", "sub"} THEN 2 ELSE 1

RECURSIVE Widths(_)
Widths(args) == IF args = <<>> THEN 0 ELSE Width(Head(args)) + Widths(Tail(args))

EncodedLen(i) == 1 + Widths(i.args)

RECURSIVE EncodeOperands(_, _, _)
EncodeOperands(args, following, entry) ==
    IF args = <<>> THEN <<>>
    ELSE (CASE Head(args).t = "lit" -> to_be_bytes(Head(args).v)
            [] Head(args).t = "next" -> to_be_bytes(following)
            [] Head(args).t = "sub" -> to_be_bytes(entry)
            [] OTHER -> <<Head(args).v>>) \o EncodeOperands(Tail(args), following, entry)

\* the bytes of instruction i placed at address at, in a program whose last
\* instruction is at address entry
Encode(i, at, entry) ==
    <<instruction[i.op].opcode>> \o EncodeOperands(i.args, at + EncodedLen(i), entry)

RECURSIVE ProgramLen(_)
ProgramLen(program) ==
    IF program = <<>> THEN 0
    ELSE EncodedLen(Head(program)) + ProgramLen(Tail(program))

RECURSIVE Encoded(_, _, _)
Encoded(program, at, entry) ==
    IF program = <<>> THEN <<>>
    ELSE Encode(Head(program), at, entry)
         \o Encoded(Tail(program), at + EncodedLen(Head(program)), entry)

Image(program) ==
    Encoded(program, 0, ProgramLen(SubSeq(program, 1, Len(program) - 1)))

\* up to MaxSetup register loads, then any one instruction
SetupLiterals == {1, U16 - 1}
SetupInstructions ==
    {[op |-> "MOVE_LIT_REG", args |-> <<OpLit(v), OpReg(r)>>] :
        v \in SetupLiterals, r \in RegisterOperands}

RECURSIVE Sequences(_, _)
Sequences(S, n) ==
    IF n = 0 THEN {<<>>}
    ELSE {<<x>> \o rest : x \in S, rest \in Sequences(S, n - 1)}

SetupPrograms ==
    {setup \o <<i>> :
        setup \in UNION {Sequences(SetupInstructions, n) : n \in 0 .. MaxSetup},
        i \in AllInstructions}

\* MaxCall instructions that call, return, push, pop and load, then the
\* subroutine the calls are made to: a RET
Return == [op |-> "RET", args |-> <<>>]
CallInstructions ==
    {[op |-> "CAL_LIT", args |-> <<OpNext>>],
     [op |-> "CAL_LIT", args |-> <<OpSub>>],
     [op |-> "CAL_REG", args |-> <<OpReg(register.R8)>>],
     Return,
     [op |-> "MOVE_LIT_REG", args |-> <<OpSub, OpReg(register.R8)>>],
     [op |-> "PSH_LIT", args |-> <<OpLit(U16 - 1)>>],
     [op |-> "POP_REG", args |-> <<OpReg(register.R2)>>]}

CallPrograms == {p \o <<Return>> : p \in Sequences(CallInstructions, MaxCall)}

Programs == SetupPrograms \cup CallPrograms

\* MaxInt instructions that raise interrupts, return from them, set the
\* interrupt mask, push and load, then the interrupt handler: a RET_INT
ReturnInt == [op |-> "RET_INT", args |-> <<>>]
InterruptInstructions ==
    {[op |-> "INT", args |-> <<OpLit(n)>>] : n \in InterruptNumbers}
    \cup {[op |-> "MOVE_LIT_REG", args |-> <<OpLit(v), OpReg(r)>>] :
              v \in SetupLiterals, r \in {register.IM}}
    \cup {ReturnInt,
          [op |-> "PSH_LIT", args |-> <<OpLit(U16 - 1)>>],
          [op |-> "MOVE_LIT_REG", args |-> <<OpLit(U16 - 1), OpReg(register.R1)>>]}

InterruptPrograms ==
    {p \o <<ReturnInt>> : p \in Sequences(InterruptInstructions, MaxInt)}

\* the handler address the vector holds for interrupt n: the program's last
\* instruction, and for interrupt 1 the instruction before it
Handler(n, program) ==
    ProgramLen(SubSeq(program, 1, Len(program) - (IF n = 1 THEN 2 ELSE 1)))

\* the bytes loaded at addresses 0 .. Len(bytes) - 1 of a zero-filled Memory
Loaded(m, bytes) ==
    [m EXCEPT !.memory =
        [a \in {i - 1 : i \in {j \in DOMAIN bytes : bytes[j] # 0}} |-> bytes[a + 1]]]

\* the memory of the tests of cpu.rs: a flat Memory holding the program
FlatMemory(bytes) == Loaded(Memory_new(MemLen), bytes)

\* a flat Memory holding the program and, at INTERRUPT_VECTOR_ADDRESS, the
\* handler addresses of the interrupts ns
RECURSIVE Vectored(_, _, _)
Vectored(m, ns, program) ==
    IF ns = {} THEN m
    ELSE LET n == CHOOSE x \in ns : TRUE
         IN Memory_set_u16(Vectored(m, ns \ {n}, program),
                           INTERRUPT_VECTOR_ADDRESS + 2 * n, Handler(n, program)).d

VectorMemory(program) ==
    Vectored(Loaded(Memory_new(VectorLen), Image(program)), InterruptNumbers, program)

\* the memory map main() builds for `vm run`
MainMemory(bytes) ==
    LET mem_bank == BankedMemory_new(8, 256)
        screen == Screen_new
        mem == Loaded(Memory_new(65280), bytes)
        mm1 == map(MemoryMapper_new, mem, 0, 65024, TRUE)
        mm2 == map(mm1, screen, 65024, 65280, TRUE)
    IN map(mm2, mem_bank, 65280, 65535, FALSE)

\* CPU::new
\* CPU::new leaving FP where Memory::new put it
CPU_new_without_FP(mem) ==
    Let([memory |-> mem, registers |-> Memory_new(SIZE),
         stack_frame_size |-> 0, is_in_interrupt_handler |-> FALSE,
         panicked |-> FALSE, frames |-> <<>>, step |-> 0], LAMBDA cpu :
    Let(sub(cpu, len(mem).v % U16, 2), LAMBDA top :
    Let(set_register(top.s, register.SP, top.v), LAMBDA s1 :
    set_register(s1, register.IM, 255))))

CPU_new(mem) ==
    Let([memory |-> mem, registers |-> Memory_new(SIZE),
         stack_frame_size |-> 0, is_in_interrupt_handler |-> FALSE,
         panicked |-> FALSE, frames |-> <<>>, step |-> 0], LAMBDA cpu :
    Let(sub(cpu, len(mem).v % U16, 2), LAMBDA top :
    Let(set_register(top.s, register.SP, top.v), LAMBDA s1 :
    Let(set_register(s1, register.FP, top.v), LAMBDA s2 :
    set_register(s2, register.IM, 255)))))

NoDevice == [kind |-> "none"]
NotGrouped == [type |-> "none"]

\* the memories the CPU is constructed on
Memories ==
    {FlatMemory(Image(program)) : program \in Programs}
    \cup {MainMemory(Image(program)) : program \in Programs}
    \cup {VectorMemory(program) : program \in InterruptPrograms}

Init ==
    \E mem \in Memories :
        /\ overflow_checks \in BOOLEAN
        /\ \E cpu \in {CPU_new(mem)} :
              /\ memory = cpu.memory
              /\ registers = cpu.registers
              /\ stack_frame_size = cpu.stack_frame_size
              /\ is_in_interrupt_handler = cpu.is_in_interrupt_handler
              /\ panicked = cpu.panicked
        /\ halted = FALSE
        /\ frames = <<>>
        /\ history = <<>>
        /\ dut = NoDevice
        /\ written = <<>>
        /\ mapped = <<>>
        /\ call = <<>>
        /\ expression = <<>>
        /\ grouped = NotGrouped
        /\ AssemblerIdle


(***************************************************************************)
(* cpu.rs, CPU::step and CPU::execute: one action per arm of the match.    *)
(* run() steps until an instruction halts; a panic ends the process.       *)
(***************************************************************************)
\* the CPU state the step starts from
Cur ==
    [memory |-> memory, registers |-> registers,
     stack_frame_size |-> stack_frame_size,
     is_in_interrupt_handler |-> is_in_interrupt_handler,
     panicked |-> panicked, frames |-> frames, step |-> Len(history) + 1]

Running == ~panicked /\ ~halted /\ Len(history) < MaxSteps

\* step(): let instruction = self.fetch8()
Fetched == fetch8(Cur)

\* the byte IP points at
AtIP == get_u8(memory, Memory_get_u16(registers, register.IP).v)

\* the arm of execute() that instruction i selects
Decoded(i) == Running /\ AtIP.ok /\ AtIP.v = i.opcode /\ ~Fetched.s.panicked

\* the step ends in CPU state s; done is what execute() returns
Commit(s, done) ==
    \E c \in {s} :
        /\ memory' = c.memory
        /\ registers' = c.registers
        /\ stack_frame_size' = c.stack_frame_size
        /\ is_in_interrupt_handler' = c.is_in_interrupt_handler
        /\ panicked' = c.panicked
        /\ frames' = c.frames
        /\ halted' = (done /\ ~c.panicked)
        /\ history' = Append(history, [memory |-> memory, registers |-> registers,
                                       stack_frame_size |-> stack_frame_size,
                                       is_in_interrupt_handler |->
                                           is_in_interrupt_handler,
                                       opcode |-> AtIP.v])
        /\ UNCHANGED <<overflow_checks, dut, written, mapped, call,
                       expression, grouped>>
        /\ AssemblerUnchanged

INT ==
    /\ Decoded(instruction.INT)
    /\ Commit(
         Let(Fetched.s, LAMBDA f :
         Let(fetch16(f), LAMBDA value :
         handle_interrupt(value.s, value.v))), FALSE)

\* RET_INT restoring the state the interrupt pushed, as RET does
RET_INT_restoring_state ==
    /\ Decoded(instruction.RET_INT)
    /\ Commit(
         Let(Fetched.s, LAMBDA f :
         pop_state([f EXCEPT !.is_in_interrupt_handler = FALSE])), FALSE)

RET_INT ==
    /\ Decoded(instruction.RET_INT)
    /\ Commit(
         Let(Fetched.s, LAMBDA f :
         Let([f EXCEPT !.is_in_interrupt_handler = FALSE], LAMBDA s1 :
         pop_from_stack(s1).s)), FALSE)

MOVE_LIT_MEM ==
    /\ Decoded(instruction.MOVE_LIT_MEM)
    /\ Commit(
         Let(Fetched.s, LAMBDA f :
         Let(fetch16(f), LAMBDA value :
         Let(fetch16(value.s), LAMBDA mem :
         memory_set_u16(mem.s, mem.v, value.v)))), FALSE)

MOVE_LIT_REG ==
    /\ Decoded(instruction.MOVE_LIT_REG)
    /\ Commit(
         Let(Fetched.s, LAMBDA f :
         Let(fetch16(f), LAMBDA value :
         Let(fetch_register_index(value.s), LAMBDA reg :
         set_register(reg.s, reg.v, value.v)))), FALSE)

MOVE_REG_REG ==
    /\ Decoded(instruction.MOVE_REG_REG)
    /\ Commit(
         Let(Fetched.s, LAMBDA f :
         Let(fetch_register_index(f), LAMBDA reg_from :
         Let(fetch_register_index(reg_from.s), LAMBDA reg_to :
         Let(get_register(reg_to.s, reg_from.v), LAMBDA value :
         set_register(value.s, reg_to.v, value.v))))), FALSE)

MOVE_REG_PTR_REG ==
    /\ Decoded(instruction.MOVE_REG_PTR_REG)
    /\ Commit(
         Let(Fetched.s, LAMBDA f :
         Let(fetch_register_index(f), LAMBDA reg_from :
         Let(fetch_register_index(reg_from.s), LAMBDA reg_to :
         Let(get_register(reg_to.s, reg_from.v), LAMBDA ptr :
         Let(memory_get_u16(ptr.s, ptr.v), LAMBDA val :
         set_register(val.s, reg_to.v, val.v)))))), FALSE)

MOVE_LIT_OFF_REG ==
    /\ Decoded(instruction.MOVE_LIT_OFF_REG)
    /\ Commit(
         Let(Fetched.s, LAMBDA f :
         Let(fetch16(f), LAMBDA address :
         Let(fetch_register_index(address.s), LAMBDA reg_from :
         Let(fetch_register_index(reg_from.s), LAMBDA reg_to :
         Let(get_register(reg_to.s, reg_from.v), LAMBDA offset :
         Let(add(offset.s, offset.v, address.v), LAMBDA sum :
         Let(memory_get_u16(sum.s, sum.v), LAMBDA val :
         set_register(val.s, reg_to.v, val.v)))))))), FALSE)

MOVE_REG_MEM ==
    /\ Decoded(instruction.MOVE_REG_MEM)
    /\ Commit(
         Let(Fetched.s, LAMBDA f :
         Let(fetch_register_index(f), LAMBDA reg :
         Let(fetch16(reg.s), LAMBDA mem :
         Let(get_register(mem.s, reg.v), LAMBDA value :
         memory_set_u16(value.s, mem.v, value.v))))), FALSE)

MOVE_MEM_REG ==
    /\ Decoded(instruction.MOVE_MEM_REG)
    /\ Commit(
         Let(Fetched.s, LAMBDA f :
         Let(fetch16(f), LAMBDA mem :
         Let(fetch_register_index(mem.s), LAMBDA reg :
         Let(memory_get_u16(reg.s, mem.v), LAMBDA value :
         set_register(value.s, reg.v, value.v))))), FALSE)

\* ADD_REG_REG writing its result back in place, as INC_REG does
ADD_REG_REG_in_place ==
    /\ Decoded(instruction.ADD_REG_REG)
    /\ Commit(
         Let(Fetched.s, LAMBDA f :
         Let(fetch_register_index(f), LAMBDA reg_1 :
         Let(fetch_register_index(reg_1.s), LAMBDA reg_2 :
         Let(get_register(reg_2.s, reg_1.v), LAMBDA a :
         Let(get_register(a.s, reg_2.v), LAMBDA b :
         Let(add(b.s, a.v, b.v), LAMBDA res :
         registers_set_u16(res.s, reg_1.v, res.v))))))), FALSE)

ADD_REG_REG ==
    /\ Decoded(instruction.ADD_REG_REG)
    /\ Commit(
         Let(Fetched.s, LAMBDA f :
         Let(fetch_register_index(f), LAMBDA reg_1 :
         Let(fetch_register_index(reg_1.s), LAMBDA reg_2 :
         Let(get_register(reg_2.s, reg_1.v), LAMBDA a :
         Let(get_register(a.s, reg_2.v), LAMBDA b :
         Let(add(b.s, a.v, b.v), LAMBDA res :
         set_register(res.s, register.ACC, res.v))))))), FALSE)

ADD_LIT_REG ==
    /\ Decoded(instruction.ADD_LIT_REG)
    /\ Commit(
         Let(Fetched.s, LAMBDA f :
         Let(fetch16(f), LAMBDA val :
         Let(fetch_register_index(val.s), LAMBDA reg :
         Let(get_register(reg.s, reg.v), LAMBDA a :
         Let(add(a.s, a.v, val.v), LAMBDA res :
         set_register(res.s, register.ACC, res.v)))))), FALSE)

\* SUB_LIT_REG subtracting the literal from the register
SUB_LIT_REG_register_first ==
    /\ Decoded(instruction.SUB_LIT_REG)
    /\ Commit(
         Let(Fetched.s, LAMBDA f :
         Let(fetch16(f), LAMBDA val :
         Let(fetch_register_index(val.s), LAMBDA reg :
         Let(get_register(reg.s, reg.v), LAMBDA a :
         Let(sub(a.s, a.v, val.v), LAMBDA res :
         set_register(res.s, register.ACC, res.v)))))), FALSE)

SUB_LIT_REG ==
    /\ Decoded(instruction.SUB_LIT_REG)
    /\ Commit(
         Let(Fetched.s, LAMBDA f :
         Let(fetch16(f), LAMBDA val :
         Let(fetch_register_index(val.s), LAMBDA reg :
         Let(get_register(reg.s, reg.v), LAMBDA a :
         Let(sub(a.s, val.v, a.v), LAMBDA res :
         set_register(res.s, register.ACC, res.v)))))), FALSE)

SUB_REG_LIT ==
    /\ Decoded(instruction.SUB_REG_LIT)
    /\ Commit(
         Let(Fetched.s, LAMBDA f :
         Let(fetch_register_index(f), LAMBDA reg :
         Let(fetch16(reg.s), LAMBDA val :
         Let(get_register(val.s, reg.v), LAMBDA a :
         Let(sub(a.s, a.v, val.v), LAMBDA res :
         set_register(res.s, register.ACC, res.v)))))), FALSE)

SUB_REG_REG ==
    /\ Decoded(instruction.SUB_REG_REG)
    /\ Commit(
         Let(Fetched.s, LAMBDA f :
         Let(fetch_register_index(f), LAMBDA reg_1 :
         Let(fetch_register_index(reg_1.s), LAMBDA reg_2 :
         Let(get_register(reg_2.s, reg_1.v), LAMBDA a :
         Let(get_register(a.s, reg_2.v), LAMBDA b :
         Let(sub(b.s, a.v, b.v), LAMBDA res :
         set_register(res.s, register.ACC, res.v))))))), FALSE)

MUL_REG_REG ==
    /\ Decoded(instruction.MUL_REG_REG)
    /\ Commit(
         Let(Fetched.s, LAMBDA f :
         Let(fetch_register_index(f), LAMBDA reg_1 :
         Let(fetch_register_index(reg_1.s), LAMBDA reg_2 :
         Let(get_register(reg_2.s, reg_1.v), LAMBDA a :
         Let(get_register(a.s, reg_2.v), LAMBDA b :
         Let(mul(b.s, a.v, b.v), LAMBDA res :
         set_register(res.s, register.ACC, res.v))))))), FALSE)

MUL_LIT_REG ==
    /\ Decoded(instruction.MUL_LIT_REG)
    /\ Commit(
         Let(Fetched.s, LAMBDA f :
         Let(fetch16(f), LAMBDA val :
         Let(fetch_register_index(val.s), LAMBDA reg :
         Let(get_register(reg.s, reg.v), LAMBDA a :
         Let(mul(a.s, val.v, a.v), LAMBDA res :
         set_register(res.s, register.ACC, res.v)))))), FALSE)

INC_REG ==
    /\ Decoded(instruction.INC_REG)
    /\ Commit(
         Let(Fetched.s, LAMBDA f :
         Let(fetch_register_index(f), LAMBDA reg :
         Let(get_register(reg.s, reg.v), LAMBDA a :
         Let(add(a.s, a.v, 1), LAMBDA res :
         registers_set_u16(res.s, reg.v, res.v))))), FALSE)

DEC_REG ==
    /\ Decoded(instruction.DEC_REG)
    /\ Commit(
         Let(Fetched.s, LAMBDA f :
         Let(fetch_register_index(f), LAMBDA reg :
         Let(get_register(reg.s, reg.v), LAMBDA a :
         Let(sub(a.s, a.v, 1), LAMBDA res :
         registers_set_u16(res.s, reg.v, res.v))))), FALSE)

LSF_REG_REG ==
    /\ Decoded(instruction.LSF_REG_REG)
    /\ Commit(
         Let(Fetched.s, LAMBDA f :
         Let(fetch_register_index(f), LAMBDA reg_1 :
         Let(fetch_register_index(reg_1.s), LAMBDA reg_2 :
         Let(get_register(reg_2.s, reg_1.v), LAMBDA a :
         Let(get_register(a.s, reg_2.v), LAMBDA b :
         Let(shl(b.s, a.v, b.v), LAMBDA res :
         registers_set_u16(res.s, reg_1.v, res.v))))))), FALSE)

\* LSF_REG_LIT8 leaving its result in ACC, as the arithmetic instructions do
LSF_REG_LIT8_into_ACC ==
    /\ Decoded(instruction.LSF_REG_LIT8)
    /\ Commit(
         Let(Fetched.s, LAMBDA f :
         Let(fetch_register_index(f), LAMBDA reg :
         Let(fetch16(reg.s), LAMBDA val :
         Let(get_register(val.s, reg.v), LAMBDA a :
         Let(shl(a.s, a.v, val.v), LAMBDA res :
         set_register(res.s, register.ACC, res.v)))))), FALSE)

LSF_REG_LIT8 ==
    /\ Decoded(instruction.LSF_REG_LIT8)
    /\ Commit(
         Let(Fetched.s, LAMBDA f :
         Let(fetch_register_index(f), LAMBDA reg :
         Let(fetch16(reg.s), LAMBDA val :
         Let(get_register(val.s, reg.v), LAMBDA a :
         Let(shl(a.s, a.v, val.v), LAMBDA res :
         registers_set_u16(res.s, reg.v, res.v)))))), FALSE)

RSF_REG_REG ==
    /\ Decoded(instruction.RSF_REG_REG)
    /\ Commit(
         Let(Fetched.s, LAMBDA f :
         Let(fetch_register_index(f), LAMBDA reg_1 :
         Let(fetch_register_index(reg_1.s), LAMBDA reg_2 :
         Let(get_register(reg_2.s, reg_1.v), LAMBDA a :
         Let(get_register(a.s, reg_2.v), LAMBDA b :
         Let(shr(b.s, a.v, b.v), LAMBDA res :
         registers_set_u16(res.s, reg_1.v, res.v))))))), FALSE)

RSF_REG_LIT8 ==
    /\ Decoded(instruction.RSF_REG_LIT8)
    /\ Commit(
         Let(Fetched.s, LAMBDA f :
         Let(fetch_register_index(f), LAMBDA reg :
         Let(fetch16(reg.s), LAMBDA val :
         Let(get_register(val.s, reg.v), LAMBDA a :
         Let(shr(a.s, a.v, val.v), LAMBDA res :
         registers_set_u16(res.s, reg.v, res.v)))))), FALSE)

AND_REG_REG ==
    /\ Decoded(instruction.AND_REG_REG)
    /\ Commit(
         Let(Fetched.s, LAMBDA f :
         Let(fetch_register_index(f), LAMBDA reg_1 :
         Let(fetch_register_index(reg_1.s), LAMBDA reg_2 :
         Let(get_register(reg_2.s, reg_1.v), LAMBDA a :
         Let(get_register(a.s, reg_2.v), LAMBDA b :
         Let(Res(b.s, BitAnd(a.v, b.v)), LAMBDA res :
         registers_set_u16(res.s, register.ACC, res.v))))))), FALSE)

AND_REG_LIT ==
    /\ Decoded(instruction.AND_REG_LIT)
    /\ Commit(
         Let(Fetched.s, LAMBDA f :
         Let(fetch_register_index(f), LAMBDA reg :
         Let(fetch16(reg.s), LAMBDA val :
         Let(get_register(val.s, reg.v), LAMBDA a :
         Let(Res(a.s, BitAnd(a.v, val.v)), LAMBDA res :
         registers_set_u16(res.s, register.ACC, res.v)))))), FALSE)

OR_REG_REG ==
    /\ Decoded(instruction.OR_REG_REG)
    /\ Commit(
         Let(Fetched.s, LAMBDA f :
         Let(fetch_register_index(f), LAMBDA reg_1 :
         Let(fetch_register_index(reg_1.s), LAMBDA reg_2 :
         Let(get_register(reg_2.s, reg_1.v), LAMBDA a :
         Let(get_register(a.s, reg_2.v), LAMBDA b :
         Let(Res(b.s, BitOr(a.v, b.v)), LAMBDA res :
         registers_set_u16(res.s, register.ACC, res.v))))))), FALSE)

OR_REG_LIT ==
    /\ Decoded(instruction.OR_REG_LIT)
    /\ Commit(
         Let(Fetched.s, LAMBDA f :
         Let(fetch_register_index(f), LAMBDA reg :
         Let(fetch16(reg.s), LAMBDA val :
         Let(get_register(val.s, reg.v), LAMBDA a :
         Let(Res(a.s, BitOr(a.v, val.v)), LAMBDA res :
         registers_set_u16(res.s, register.ACC, res.v)))))), FALSE)

XOR_REG_REG ==
    /\ Decoded(instruction.XOR_REG_REG)
    /\ Commit(
         Let(Fetched.s, LAMBDA f :
         Let(fetch_register_index(f), LAMBDA reg_1 :
         Let(fetch_register_index(reg_1.s), LAMBDA reg_2 :
         Let(get_register(reg_2.s, reg_1.v), LAMBDA a :
         Let(get_register(a.s, reg_2.v), LAMBDA b :
         Let(Res(b.s, BitXor(a.v, b.v)), LAMBDA res :
         registers_set_u16(res.s, register.ACC, res.v))))))), FALSE)

XOR_REG_LIT ==
    /\ Decoded(instruction.XOR_REG_LIT)
    /\ Commit(
         Let(Fetched.s, LAMBDA f :
         Let(fetch_register_index(f), LAMBDA reg :
         Let(fetch16(reg.s), LAMBDA val :
         Let(get_register(val.s, reg.v), LAMBDA a :
         Let(Res(a.s, BitXor(a.v, val.v)), LAMBDA res :
         registers_set_u16(res.s, register.ACC, res.v)))))), FALSE)

NOT_REG ==
    /\ Decoded(instruction.NOT_REG)
    /\ Commit(
         Let(Fetched.s, LAMBDA f :
         Let(fetch_register_index(f), LAMBDA reg :
         Let(get_register(reg.s, reg.v), LAMBDA a :
         registers_set_u16(a.s, register.ACC, BitNot(a.v))))), FALSE)

JNE_LIT_MEM ==
    /\ Decoded(instruction.JNE_LIT_MEM)
    /\ Commit(
         Let(Fetched.s, LAMBDA f :
         Let(fetch16(f), LAMBDA lit :
         Let(fetch16(lit.s), LAMBDA address :
         Let(get_register(address.s, register.ACC), LAMBDA acc :
         IF acc.v # lit.v THEN set_register(acc.s, register.IP, address.v) ELSE acc.s)))), FALSE)

JNE_REG_MEM ==
    /\ Decoded(instruction.JNE_REG_MEM)
    /\ Commit(
         Let(Fetched.s, LAMBDA f :
         Let(fetch_register_index(f), LAMBDA reg :
         Let(fetch16(reg.s), LAMBDA address :
         Let(get_register(address.s, register.ACC), LAMBDA acc :
         Let(get_register(acc.s, reg.v), LAMBDA value :
         IF acc.v # value.v THEN set_register(value.s, register.IP, address.v) ELSE value.s))))), FALSE)

JEQ_LIT_MEM ==
    /\ Decoded(instruction.JEQ_LIT_MEM)
    /\ Commit(
         Let(Fetched.s, LAMBDA f :
         Let(fetch16(f), LAMBDA lit :
         Let(fetch16(lit.s), LAMBDA address :
         Let(get_register(address.s, register.ACC), LAMBDA acc :
         IF acc.v = lit.v THEN set_register(acc.s, register.IP, address.v) ELSE acc.s)))), FALSE)

JEQ_REG_MEM ==
    /\ Decoded(instruction.JEQ_REG_MEM)
    /\ Commit(
         Let(Fetched.s, LAMBDA f :
         Let(fetch_register_index(f), LAMBDA reg :
         Let(fetch16(reg.s), LAMBDA address :
         Let(get_register(address.s, register.ACC), LAMBDA acc :
         Let(get_register(acc.s, reg.v), LAMBDA value :
         IF acc.v = value.v THEN set_register(value.s, register.IP, address.v) ELSE value.s))))), FALSE)

\* JGT_LIT_MEM comparing with ACC on the right: jump if lit > ACC
JGT_LIT_MEM_operands_swapped ==
    /\ Decoded(instruction.JGT_LIT_MEM)
    /\ Commit(
         Let(Fetched.s, LAMBDA f :
         Let(fetch16(f), LAMBDA lit :
         Let(fetch16(lit.s), LAMBDA address :
         Let(get_register(address.s, register.ACC), LAMBDA acc :
         IF lit.v > acc.v THEN set_register(acc.s, register.IP, address.v)
         ELSE acc.s)))), FALSE)

JGT_LIT_MEM ==
    /\ Decoded(instruction.JGT_LIT_MEM)
    /\ Commit(
         Let(Fetched.s, LAMBDA f :
         Let(fetch16(f), LAMBDA lit :
         Let(fetch16(lit.s), LAMBDA address :
         Let(get_register(address.s, register.ACC), LAMBDA acc :
         IF acc.v > lit.v THEN set_register(acc.s, register.IP, address.v) ELSE acc.s)))), FALSE)

JGT_REG_MEM ==
    /\ Decoded(instruction.JGT_REG_MEM)
    /\ Commit(
         Let(Fetched.s, LAMBDA f :
         Let(fetch_register_index(f), LAMBDA reg :
         Let(fetch16(reg.s), LAMBDA address :
         Let(get_register(address.s, register.ACC), LAMBDA acc :
         Let(get_register(acc.s, reg.v), LAMBDA value :
         IF acc.v > value.v THEN set_register(value.s, register.IP, address.v) ELSE value.s))))), FALSE)

JLT_LIT_MEM ==
    /\ Decoded(instruction.JLT_LIT_MEM)
    /\ Commit(
         Let(Fetched.s, LAMBDA f :
         Let(fetch16(f), LAMBDA lit :
         Let(fetch16(lit.s), LAMBDA address :
         Let(get_register(address.s, register.ACC), LAMBDA acc :
         IF acc.v < lit.v THEN set_register(acc.s, register.IP, address.v) ELSE acc.s)))), FALSE)

JLT_REG_MEM ==
    /\ Decoded(instruction.JLT_REG_MEM)
    /\ Commit(
         Let(Fetched.s, LAMBDA f :
         Let(fetch_register_index(f), LAMBDA reg :
         Let(fetch16(reg.s), LAMBDA address :
         Let(get_register(address.s, register.ACC), LAMBDA acc :
         Let(get_register(acc.s, reg.v), LAMBDA value :
         IF acc.v < value.v THEN set_register(value.s, register.IP, address.v) ELSE value.s))))), FALSE)

JGE_LIT_MEM ==
    /\ Decoded(instruction.JGE_LIT_MEM)
    /\ Commit(
         Let(Fetched.s, LAMBDA f :
         Let(fetch16(f), LAMBDA lit :
         Let(fetch16(lit.s), LAMBDA address :
         Let(get_register(address.s, register.ACC), LAMBDA acc :
         IF acc.v >= lit.v THEN set_register(acc.s, register.IP, address.v) ELSE acc.s)))), FALSE)

JGE_REG_MEM ==
    /\ Decoded(instruction.JGE_REG_MEM)
    /\ Commit(
         Let(Fetched.s, LAMBDA f :
         Let(fetch_register_index(f), LAMBDA reg :
         Let(fetch16(reg.s), LAMBDA address :
         Let(get_register(address.s, register.ACC), LAMBDA acc :
         Let(get_register(acc.s, reg.v), LAMBDA value :
         IF acc.v >= value.v THEN set_register(value.s, register.IP, address.v) ELSE value.s))))), FALSE)

JLE_LIT_MEM ==
    /\ Decoded(instruction.JLE_LIT_MEM)
    /\ Commit(
         Let(Fetched.s, LAMBDA f :
         Let(fetch16(f), LAMBDA lit :
         Let(fetch16(lit.s), LAMBDA address :
         Let(get_register(address.s, register.ACC), LAMBDA acc :
         IF acc.v <= lit.v THEN set_register(acc.s, register.IP, address.v) ELSE acc.s)))), FALSE)

JLE_REG_MEM ==
    /\ Decoded(instruction.JLE_REG_MEM)
    /\ Commit(
         Let(Fetched.s, LAMBDA f :
         Let(fetch_register_index(f), LAMBDA reg :
         Let(fetch16(reg.s), LAMBDA address :
         Let(get_register(address.s, register.ACC), LAMBDA acc :
         Let(get_register(acc.s, reg.v), LAMBDA value :
         IF acc.v <= value.v THEN set_register(value.s, register.IP, address.v) ELSE value.s))))), FALSE)

PSH_LIT ==
    /\ Decoded(instruction.PSH_LIT)
    /\ Commit(
         Let(Fetched.s, LAMBDA f :
         Let(fetch16(f), LAMBDA lit :
         push_to_stack(lit.s, lit.v))), FALSE)

PSH_REG ==
    /\ Decoded(instruction.PSH_REG)
    /\ Commit(
         Let(Fetched.s, LAMBDA f :
         Let(fetch_register_index(f), LAMBDA reg :
         Let(get_register(reg.s, reg.v), LAMBDA value :
         push_to_stack(value.s, value.v)))), FALSE)

POP_REG ==
    /\ Decoded(instruction.POP_REG)
    /\ Commit(
         Let(Fetched.s, LAMBDA f :
         Let(fetch_register_index(f), LAMBDA reg :
         Let(pop_from_stack(reg.s), LAMBDA value :
         set_register(value.s, reg.v, value.v)))), FALSE)

CAL_LIT ==
    /\ Decoded(instruction.CAL_LIT)
    /\ Commit(
         Let(Fetched.s, LAMBDA f :
         Let(fetch16(f), LAMBDA address :
         Let(push_state(address.s), LAMBDA s1 :
         set_register(s1, register.IP, address.v)))), FALSE)

CAL_REG ==
    /\ Decoded(instruction.CAL_REG)
    /\ Commit(
         Let(Fetched.s, LAMBDA f :
         Let(fetch_register_index(f), LAMBDA reg :
         Let(get_register(reg.s, reg.v), LAMBDA address :
         Let(push_state(address.s), LAMBDA s1 :
         set_register(s1, register.IP, address.v))))), FALSE)

RET ==
    /\ Decoded(instruction.RET)
    /\ Commit(
         Let(Fetched.s, LAMBDA f :
         pop_state(f)), FALSE)

\* the HLT arm falling through to the `false` at the end of execute()
HLT_returning_false ==
    /\ Decoded(instruction.HLT)
    /\ Commit(
         Let(Fetched.s, LAMBDA f :
         f), FALSE)

HLT ==
    /\ Decoded(instruction.HLT)
    /\ Commit(
         Let(Fetched.s, LAMBDA f :
         f), TRUE)

\* _ => panic!("Unrecognized instruction: {}", instruction)
\* the default arm skipping the byte instead of panicking
Unrecognized_skipping ==
    /\ Running
    /\ AtIP.ok
    /\ AtIP.v \notin Opcodes
    /\ ~Fetched.s.panicked
    /\ Commit(Fetched.s, FALSE)

Unrecognized ==
    /\ Running
    /\ AtIP.ok
    /\ AtIP.v \notin Opcodes
    /\ ~Fetched.s.panicked
    /\ Commit(Panic(Fetched.s), FALSE)

\* step() panics in fetch8(): IP points outside the memory, or IP + 1
\* overflows
FetchPanics ==
    /\ Running
    /\ Fetched.s.panicked
    /\ Commit(Fetched.s, FALSE)

Next ==
    \/ INT
    \/ RET_INT
    \/ MOVE_LIT_MEM
    \/ MOVE_LIT_REG
    \/ MOVE_REG_REG
    \/ MOVE_REG_PTR_REG
    \/ MOVE_LIT_OFF_REG
    \/ MOVE_REG_MEM
    \/ MOVE_MEM_REG
    \/ ADD_REG_REG
    \/ ADD_LIT_REG
    \/ SUB_LIT_REG
    \/ SUB_REG_LIT
    \/ SUB_REG_REG
    \/ MUL_REG_REG
    \/ MUL_LIT_REG
    \/ INC_REG
    \/ DEC_REG
    \/ LSF_REG_REG
    \/ LSF_REG_LIT8
    \/ RSF_REG_REG
    \/ RSF_REG_LIT8
    \/ AND_REG_REG
    \/ AND_REG_LIT
    \/ OR_REG_REG
    \/ OR_REG_LIT
    \/ XOR_REG_REG
    \/ XOR_REG_LIT
    \/ NOT_REG
    \/ JNE_LIT_MEM
    \/ JNE_REG_MEM
    \/ JEQ_LIT_MEM
    \/ JEQ_REG_MEM
    \/ JGT_LIT_MEM
    \/ JGT_REG_MEM
    \/ JLT_LIT_MEM
    \/ JLT_REG_MEM
    \/ JGE_LIT_MEM
    \/ JGE_REG_MEM
    \/ JLE_LIT_MEM
    \/ JLE_REG_MEM
    \/ PSH_LIT
    \/ PSH_REG
    \/ POP_REG
    \/ CAL_LIT
    \/ CAL_REG
    \/ RET
    \/ HLT
    \/ Unrecognized
    \/ FetchPanics

Spec == Init /\ [][Next]_vars

(***************************************************************************)
(* What the properties below read from a state.                            *)
(***************************************************************************)
\* the value of register reg in the register file regs
Reg(regs, reg) == Memory_get_u16(regs, reg).v

\* the last step taken: the memory and the registers it started from, and
\* its opcode
LastStep == history[Len(history)]
Stepped == history # <<>> /\ ~panicked

MnemonicOf(opcode) == CHOOSE n \in Mnemonics : instruction[n].opcode = opcode

ConditionalJumps ==
    {"JNE_LIT_MEM", "JNE_REG_MEM", "JEQ_LIT_MEM", "JEQ_REG_MEM",
     "JGT_LIT_MEM", "JGT_REG_MEM", "JLT_LIT_MEM", "JLT_REG_MEM",
     "JGE_LIT_MEM", "JGE_REG_MEM", "JLE_LIT_MEM", "JLE_REG_MEM"}

\* the comparison of a conditional jump, on ACC and the value compared with
Compares(m, acc, x) ==
    CASE m \in {"JNE_LIT_MEM", "JNE_REG_MEM"} -> acc # x
      [] m \in {"JEQ_LIT_MEM", "JEQ_REG_MEM"} -> acc = x
      [] m \in {"JGT_LIT_MEM", "JGT_REG_MEM"} -> acc > x
      [] m \in {"JLT_LIT_MEM", "JLT_REG_MEM"} -> acc < x
      [] m \in {"JGE_LIT_MEM", "JGE_REG_MEM"} -> acc >= x
      [] m \in {"JLE_LIT_MEM", "JLE_REG_MEM"} -> acc <= x

\* the conditional jump m of step h is taken
Taken(m, h) ==
    Compares(m, Reg(h.registers, register.ACC),
             IF Form[m][1] = "lit"
             THEN get_u16(h.memory, Reg(h.registers, register.IP) + 1).v
             ELSE Reg(h.registers,
                      get_u8(h.memory, Reg(h.registers, register.IP) + 1).v))

\* the last step was a control-flow instruction
ControlFlow ==
    \/ MnemonicOf(LastStep.opcode) \in {"CAL_LIT", "CAL_REG", "RET", "INT", "RET_INT"}
    \/ /\ MnemonicOf(LastStep.opcode) \in ConditionalJumps
       /\ Taken(MnemonicOf(LastStep.opcode), LastStep)

(***************************************************************************)
(* C1.  A step that fetches and executes an instruction of the table that  *)
(* is not a control-flow instruction (a taken conditional jump, CAL_LIT,   *)
(* CAL_REG, RET, INT, RET_INT) increases IP by exactly the size the table  *)
(* declares for it; LSF_REG_LIT8 and RSF_REG_LIT8 (declared size 3) and    *)
(* untaken conditional jumps included.                                     *)
(***************************************************************************)
C1_StepAdvancesIPByDeclaredSize ==
    (Stepped /\ LastStep.opcode \in Opcodes /\ ~ControlFlow)
        => Reg(registers, register.IP)
               = Reg(LastStep.registers, register.IP) + SizeOf(LastStep.opcode)

(***************************************************************************)
(* Frames.  The last step popped the frame Popped when it ran pop_state    *)
(* and a push_state had saved a frame that no pop_state had popped yet.    *)
(***************************************************************************)
PoppedNow == {i \in DOMAIN frames : frames[i].closed = Len(history)}
Popped == frames[CHOOSE i \in PoppedNow : TRUE]
Returned == Stepped /\ MnemonicOf(LastStep.opcode) = "RET" /\ PoppedNow # {}

\* R1..R8 hold the values the frame f was saved with
GeneralRestored(f) ==
    \A i \in DOMAIN GENERAL_PURPOSE_LIST :
        Reg(registers, GENERAL_PURPOSE_LIST[i]) = f.general[i]

\* every step so far was one of these instructions
Only(mnemonics) ==
    \A j \in DOMAIN history :
        history[j].opcode \in {instruction[m].opcode : m \in mnemonics}

(***************************************************************************)
(* C2.  Nested push_state calls, with writes to R1..R8 between them,       *)
(* followed by as many pop_state calls: each pop_state leaves SP and FP as *)
(* they were before the matching push_state, and R1..R8 with the values    *)
(* they had at the matching push_state.                                    *)
(***************************************************************************)
C2_PopStateRestoresSPFPAndGeneral ==
    (Returned /\ Only({"CAL_LIT", "CAL_REG", "RET", "MOVE_LIT_REG"}))
        => /\ Reg(registers, register.SP) = Popped.SP
           /\ Reg(registers, register.FP) = Popped.FP
           /\ GeneralRestored(Popped)

(***************************************************************************)
(* C3.  push_state calls followed by as many pop_state calls: each         *)
(* pop_state returns stack_frame_size to the value f it had before the     *)
(* matching push_state, whatever f was, and IP to the value it had at that *)
(* push_state.                                                             *)
(***************************************************************************)
C3_PopStateRestoresFrameSizeAndIP ==
    (Returned /\ Only({"CAL_LIT", "CAL_REG", "RET", "MOVE_LIT_REG", "PSH_LIT"}))
        => /\ stack_frame_size = Popped.stack_frame_size
           /\ Reg(registers, register.IP) = Popped.IP

(***************************************************************************)
(* C4.  k calls of push_to_stack followed by k calls of pop_from_stack     *)
(* return SP and stack_frame_size to their values before the first push,   *)
(* and FP is the same before and after each of the calls.                  *)
(***************************************************************************)
\* the last 2k steps were k pushes and then k pops into R2
PushedAndPopped(k) ==
    /\ Stepped
    /\ Len(history) >= 2 * k
    /\ \A j \in 1 .. k :
          /\ history[Len(history) - 2 * k + j].opcode
                 \in {instruction.PSH_LIT.opcode, instruction.PSH_REG.opcode}
          /\ history[Len(history) - k + j].opcode = instruction.POP_REG.opcode
          /\ get_u8(history[Len(history) - k + j].memory,
                    Reg(history[Len(history) - k + j].registers, register.IP) + 1).v
                 = register.R2

C4_BalancedPushPopRestoresSPAndFrameSize ==
    \A k \in 1 .. MaxCall \div 2 :
        PushedAndPopped(k)
            => /\ Reg(registers, register.SP)
                      = Reg(history[Len(history) - 2 * k + 1].registers, register.SP)
               /\ stack_frame_size
                      = history[Len(history) - 2 * k + 1].stack_frame_size
               /\ \A j \in Len(history) - 2 * k + 1 .. Len(history) :
                      Reg(history[j].registers, register.FP)
                          = Reg(registers, register.FP)

C4_TwoPushesTwoPops == PushedAndPopped(2)

(***************************************************************************)
(* C5.  CAL_LIT a, and CAL_REG r with r holding a, save the caller state   *)
(* and set IP to a.  When the matching RET is executed, and no pop in the  *)
(* callee went below the callee's frame, IP is the address of the          *)
(* instruction that follows the CAL and R1..R8 hold the values they had    *)
(* when the CAL was executed.                                              *)
(***************************************************************************)
Calls == {instruction.CAL_LIT.opcode, instruction.CAL_REG.opcode}

\* the address step h calls
CallTarget(h) ==
    IF h.opcode = instruction.CAL_LIT.opcode
    THEN get_u16(h.memory, Reg(h.registers, register.IP) + 1).v
    ELSE Reg(h.registers, get_u8(h.memory, Reg(h.registers, register.IP) + 1).v)

\* the address of the instruction that follows the one of step h
Following(h) == Reg(h.registers, register.IP) + SizeOf(h.opcode)

CallExecuted == Stepped /\ LastStep.opcode \in Calls

\* no pop since step c took a value from below the frame it was made in
BalancedSince(c) ==
    \A j \in c + 1 .. Len(history) :
        history[j].opcode = instruction.POP_REG.opcode
            => history[j].stack_frame_size >= 2

ReturnedFromCall ==
    /\ Returned
    /\ history[Popped.step].opcode \in Calls
    /\ BalancedSince(Popped.step)

C5_CallSavesAndReturnRestores ==
    /\ CallExecuted
          => /\ Reg(registers, register.IP) = CallTarget(LastStep)
             /\ frames # <<>>
             /\ frames[Len(frames)].step = Len(history)
             /\ frames[Len(frames)].IP = Following(LastStep)
             /\ \A i \in DOMAIN GENERAL_PURPOSE_LIST :
                    frames[Len(frames)].general[i]
                        = Reg(LastStep.registers, GENERAL_PURPOSE_LIST[i])
    /\ ReturnedFromCall
          => /\ Reg(registers, register.IP) = Following(history[Popped.step])
             /\ \A i \in DOMAIN GENERAL_PURPOSE_LIST :
                    Reg(registers, GENERAL_PURPOSE_LIST[i])
                        = Reg(history[Popped.step].registers, GENERAL_PURPOSE_LIST[i])

\* a CAL_REG was returned from, with R8 changed in between
C5_ReturnedFromCalReg ==
    /\ ReturnedFromCall
    /\ history[Popped.step].opcode = instruction.CAL_REG.opcode
    /\ Popped.step > 1

(***************************************************************************)
(* C6.  After any sequence of executed instructions the bank selected in   *)
(* the memory, the value last delivered through set_mb and 0 at first, is  *)
(* the value of the MB register.                                           *)
(***************************************************************************)
\* the banks selected in the banked devices of the memory
SelectedBanks ==
    CASE memory.kind = "BankedMemory" -> {memory.mb}
      [] memory.kind = "MemoryMapper" ->
            {memory.regions[i].device.mb :
                i \in {j \in DOMAIN memory.regions :
                          memory.regions[j].device.kind = "BankedMemory"}}
      [] OTHER -> {}

C6_SelectedBankIsMB ==
    ~panicked => \A bank \in SelectedBanks : bank = Reg(registers, register.MB)

(***************************************************************************)
(* SpecDevice: calls of the Device trait, and of MemoryMapper::map, made   *)
(* on a freshly constructed Memory, BankedMemory or MemoryMapper, as the   *)
(* tests of memory.rs and cpu.rs make them.  A call that panics ends the   *)
(* behaviour.                                                              *)
(***************************************************************************)
MaxCalls == 3      \* calls made on the device
DeviceLen == 3     \* bytes of a Memory, and of each bank of a BankedMemory
BankCount == 2     \* banks of a BankedMemory
MaxRegions == 2    \* regions mapped into a MemoryMapper

\* the arguments the calls are made with; address DeviceLen is past the end
\* of a device, bank BankCount past the banks
Addresses == 0 .. DeviceLen
Bytes == {1, U8 - 1}
Words == {0, 258, 65280}
BankNumbers == 0 .. BankCount
Ranges == {r \in {0, 1} \X {1, DeviceLen - 1} : r[1] <= r[2]}
\* the memory m after set_u8(a, a + 1) for every address a from address on
RECURSIVE Filled(_, _)
Filled(m, address) ==
    IF address >= m.len THEN m
    ELSE Filled(Memory_set_u8(m, address, address + 1).d, address + 1)

\* the devices mapped: a new memory, a new banked memory, a memory written to
\* before it was mapped
MappedDevices ==
    {Memory_new(DeviceLen), BankedMemory_new(BankCount, DeviceLen),
     Filled(Memory_new(DeviceLen), 0)}

NoCall ==
    [n |-> 0, op |-> "new", address |-> 0, value |-> 0, before |-> NoDevice,
     result |-> NoVal]

InitDevice ==
    /\ dut \in {Memory_new(DeviceLen), BankedMemory_new(BankCount, DeviceLen),
                MemoryMapper_new}
    /\ written = [b \in 0 .. BankCount - 1 |-> [a \in 0 .. DeviceLen - 1 |-> 0]]
    /\ mapped = <<>>
    /\ call = NoCall
    /\ memory = NoDevice
    /\ registers = Memory_new(SIZE)
    /\ stack_frame_size = 0
    /\ is_in_interrupt_handler = FALSE
    /\ panicked = FALSE
    /\ halted = FALSE
    /\ overflow_checks = FALSE
    /\ frames = <<>>
    /\ history = <<>>
    /\ expression = <<>>
    /\ grouped = NotGrouped
    /\ AssemblerIdle

Callable == ~panicked /\ call.n < MaxCalls

CPUUnchanged ==
    UNCHANGED <<memory, registers, stack_frame_size, is_in_interrupt_handler,
                halted, overflow_checks, frames, history>>

ParserUnchanged == UNCHANGED <<expression, grouped>> /\ AssemblerUnchanged

\* the call op(address, value) was made on dut
Called(op, address, value, result) ==
    call' = [n |-> call.n + 1, op |-> op, address |-> address, value |-> value,
             before |-> dut, result |-> result]

\* the bytes written, after the byte value went to address of the current
\* bank of the BankedMemory d
Wrote(w, d, address, value) ==
    IF d.kind = "BankedMemory" /\ d.mb \in DOMAIN w /\ address \in DOMAIN w[d.mb]
    THEN [w EXCEPT ![d.mb][address] = value]
    ELSE w

Call_map ==
    /\ Callable
    /\ dut.kind = "MemoryMapper"
    /\ Len(dut.regions) < MaxRegions
    /\ \E device \in MappedDevices, range \in Ranges, remap \in BOOLEAN :
          /\ dut' = map(dut, device, range[1], range[2], remap)
          /\ mapped' = Append(mapped, Region(device, range[1], range[2], remap))
          /\ Called("map", range[1], range[2], NoVal)
    /\ UNCHANGED <<written, panicked>>
    /\ CPUUnchanged
    /\ ParserUnchanged

Call_get_u8 ==
    /\ Callable
    /\ \E address \in Addresses :
          \E r \in {get_u8(dut, address)} :
              /\ panicked' = ~r.ok
              /\ Called("get_u8", address, 0, r)
    /\ UNCHANGED <<dut, written, mapped>>
    /\ CPUUnchanged
    /\ ParserUnchanged

Call_get_u16 ==
    /\ Callable
    /\ \E address \in Addresses :
          \E r \in {get_u16(dut, address)} :
              /\ panicked' = ~r.ok
              /\ Called("get_u16", address, 0, r)
    /\ UNCHANGED <<dut, written, mapped>>
    /\ CPUUnchanged
    /\ ParserUnchanged

Call_set_u8 ==
    /\ Callable
    /\ \E address \in Addresses, value \in Bytes :
          \E r \in {set_u8(dut, address, value)} :
              /\ dut' = r.d
              /\ panicked' = ~r.ok
              /\ written' = IF r.ok THEN Wrote(written, dut, address, value)
                            ELSE written
              /\ Called("set_u8", address, value, [ok |-> r.ok, v |-> 0])
    /\ UNCHANGED mapped
    /\ CPUUnchanged
    /\ ParserUnchanged

Call_set_u16 ==
    /\ Callable
    /\ \E address \in Addresses, value \in Words :
          \E r \in {set_u16(dut, address, value)} :
              /\ dut' = r.d
              /\ panicked' = ~r.ok
              /\ written' = IF r.ok
                            THEN Wrote(Wrote(written, dut, address, Hi(value)),
                                       dut, address + 1, Lo(value))
                            ELSE written
              /\ Called("set_u16", address, value, [ok |-> r.ok, v |-> 0])
    /\ UNCHANGED mapped
    /\ CPUUnchanged
    /\ ParserUnchanged

Call_set_mb ==
    /\ Callable
    /\ \E mb \in BankNumbers :
          /\ dut' = set_mb(dut, mb)
          /\ Called("set_mb", 0, mb, NoVal)
    /\ UNCHANGED <<written, mapped, panicked>>
    /\ CPUUnchanged
    /\ ParserUnchanged

NextDevice ==
    \/ Call_map
    \/ Call_get_u8
    \/ Call_get_u16
    \/ Call_set_u8
    \/ Call_set_u16
    \/ Call_set_mb

SpecDevice == InitDevice /\ [][NextDevice]_vars

(***************************************************************************)
(* C7.  In a BankedMemory, a write at address a while bank i is selected   *)
(* does not change what is read at a while another bank j is selected,     *)
(* and after any bank switches, selecting bank i again reads at a the      *)
(* value last written at a in bank i.                                      *)
(***************************************************************************)
Banks == 0 .. BankCount - 1
InRange == 0 .. DeviceLen - 1
IsWrite == call.op \in {"set_u8", "set_u16"}

C7_BanksAreIndependent ==
    (dut.kind = "BankedMemory" /\ ~panicked)
        => /\ \A i \in Banks, a \in InRange :
                  get_u8(set_mb(dut, i), a) = Val(written[i][a])
           /\ IsWrite
                  => \A j \in Banks \ {call.before.mb}, a \in InRange :
                         get_u8(set_mb(dut, j), a) = get_u8(set_mb(call.before, j), a)

\* the same address was written in two banks, with different values
C7_WrittenInTwoBanks ==
    /\ dut.kind = "BankedMemory"
    /\ ~panicked
    /\ IsWrite
    /\ call.before.mb = 1
    /\ written[0][call.address] # 0
    /\ written[1][call.address] # 0
    /\ written[0][call.address] # written[1][call.address]

(***************************************************************************)
(* C8.  Whatever map() calls were made, a MemoryMapper lookup of an        *)
(* address that at least one region's range [start, end] contains selects  *)
(* the region mapped most recently among the regions containing it.        *)
(***************************************************************************)
\* the map() calls whose range contains address a, by their place in time
Containing(a) == {k \in DOMAIN mapped : mapped[k].start <= a /\ a <= mapped[k].end}
MostRecent(a) == mapped[CHOOSE k \in Containing(a) : \A l \in Containing(a) : l <= k]

\* what map() was called with for the region
Mapping(region) ==
    [start |-> region.start, end |-> region.end, remap |-> region.remap,
     kind |-> region.device.kind]

C8_LookupSelectsMostRecentlyMapped ==
    dut.kind = "MemoryMapper"
        => \A a \in Addresses :
               Containing(a) # {}
                   => /\ find_region(dut, a) # 0
                      /\ Mapping(dut.regions[find_region(dut, a)])
                             = Mapping(MostRecent(a))

\* an address in two regions mapped differently was looked up
C8_LookedUpInOverlap ==
    /\ dut.kind = "MemoryMapper"
    /\ ~panicked
    /\ call.op \in {"get_u8", "get_u16", "set_u8", "set_u16"}
    /\ Cardinality(Containing(call.address)) = 2
    /\ Mapping(mapped[1]) # Mapping(mapped[2])

(***************************************************************************)
(* C9.  A MemoryMapper access (get_u8, get_u16, set_u8, set_u16) at        *)
(* address a addresses the selected region's device at a - start when the  *)
(* region was mapped with remap = true and at a when it was mapped with    *)
(* remap = false.                                                          *)
(***************************************************************************)
Accessed ==
    /\ call.op \in {"get_u8", "get_u16", "set_u8", "set_u16"}
    /\ call.before.kind = "MemoryMapper"
    /\ find_region(call.before, call.address) # 0

Selected == find_region(call.before, call.address)
SelectedRegion == call.before.regions[Selected]
Addressed ==
    IF SelectedRegion.remap THEN call.address - SelectedRegion.start
    ELSE call.address

\* the mapper with the device of region i set to d
WithDevice(mm, i, d) == [mm EXCEPT !.regions[i].device = d]

C9_RegionDeviceAddressedPerRemap ==
    Accessed
        => CASE call.op = "get_u8" ->
                  call.result = get_u8(SelectedRegion.device, Addressed)
             [] call.op = "get_u16" ->
                  call.result = get_u16(SelectedRegion.device, Addressed)
             [] call.op = "set_u8" ->
                  /\ call.result.ok
                         = set_u8(SelectedRegion.device, Addressed, call.value).ok
                  /\ dut = WithDevice(call.before, Selected,
                               set_u8(SelectedRegion.device, Addressed, call.value).d)
             [] call.op = "set_u16" ->
                  /\ call.result.ok
                         = set_u16(SelectedRegion.device, Addressed, call.value).ok
                  /\ dut = WithDevice(call.before, Selected,
                               set_u16(SelectedRegion.device, Addressed, call.value).d)

\* a value written earlier was read through a region that is not remapped
\* and does not start at 0
C9_ReadThroughRegionNotRemapped ==
    /\ Accessed
    /\ call.op = "get_u8"
    /\ ~SelectedRegion.remap
    /\ SelectedRegion.start > 0
    /\ call.result.ok
    /\ call.result.v # 0

(***************************************************************************)
(* C10.  For a flat Memory, an address a with a + 1 inside the memory and  *)
(* a 16-bit value v: after set_u16(a, v), get_u16(a) = v, get_u8(a) is the *)
(* high byte of v, get_u8(a + 1) is the low byte of v, and no byte other   *)
(* than those at a and a + 1 has changed.                                  *)
(***************************************************************************)
WroteWord ==
    /\ call.op = "set_u16"
    /\ call.before.kind = "Memory"
    /\ call.address + 1 < call.before.len

C10_SetU16RoundTripBigEndian ==
    WroteWord
        => /\ ~panicked
           /\ dut.len = call.before.len
           /\ get_u16(dut, call.address) = Val(call.value)
           /\ get_u8(dut, call.address) = Val(call.value \div 256)
           /\ get_u8(dut, call.address + 1) = Val(call.value % 256)
           /\ \A b \in (0 .. dut.len - 1) \ {call.address, call.address + 1} :
                  get_u8(dut, b) = get_u8(call.before, b)

\* a word with different bytes was written next to a byte that was not 0
C10_WroteWordBesideAByte ==
    /\ WroteWord
    /\ call.value \div 256 # call.value % 256
    /\ \E b \in (0 .. dut.len - 1) \ {call.address, call.address + 1} :
          get_u8(call.before, b).v # 0

(***************************************************************************)
(* Operands of the last step, read from the state the step started in.     *)
(***************************************************************************)
\* the address, after the opcode, of operand k of an instruction of step h
\* whose operands have the kinds form
RECURSIVE OperandAddress(_, _, _)
OperandAddress(h, form, k) ==
    IF k = 1 THEN Reg(h.registers, register.IP) + 1
    ELSE OperandAddress(h, form, k - 1) + (IF form[k - 1] = "reg" THEN 1 ELSE 2)

\* operand k as encoded: a register's offset, or a 16-bit literal
Encoded16(h, form, k) ==
    IF form[k] = "reg" THEN get_u8(h.memory, OperandAddress(h, form, k)).v
    ELSE get_u16(h.memory, OperandAddress(h, form, k)).v

\* the value of operand k: the register's value, or the literal
Operand(h, form, k) ==
    IF form[k] = "reg" THEN Reg(h.registers, Encoded16(h, form, k))
    ELSE Encoded16(h, form, k)

\* every register operand of the instruction of step h names a register
\* other than IP, which the fetch of the operands itself changes
NamesRegisters(h, form) ==
    \A k \in DOMAIN form :
        form[k] = "reg"
            => Encoded16(h, form, k)
                   \in {LIST[i] : i \in DOMAIN LIST} \ {register.IP}

\* the opcodes of a set of mnemonics
OpcodesOf(mnemonics) == {instruction[m].opcode : m \in mnemonics}

\* the last step executed one of these instructions, to its end or to a panic
Executed(mnemonics) == history # <<>> /\ LastStep.opcode \in OpcodesOf(mnemonics)

(***************************************************************************)
(* C11.  For all 16-bit operand values ADD_REG_REG, ADD_LIT_REG,           *)
(* SUB_LIT_REG, SUB_REG_LIT, SUB_REG_REG, MUL_LIT_REG, MUL_REG_REG,        *)
(* INC_REG and DEC_REG complete, and leave the mathematical result reduced *)
(* modulo 2^16 in ACC (INC_REG and DEC_REG: in the named register).        *)
(***************************************************************************)
Arithmetic ==
    {"ADD_REG_REG", "ADD_LIT_REG", "SUB_LIT_REG", "SUB_REG_LIT", "SUB_REG_REG",
     "MUL_LIT_REG", "MUL_REG_REG", "INC_REG", "DEC_REG"}

\* a * b modulo 2^16, by the bytes of b
TimesMod(a, b) == (a * (b % U8) + ((a * (b \div U8)) % U8) * U8) % U16

\* the mathematical result of instruction m of step h, modulo 2^16
Mathematical(m, h) ==
    LET x == Operand(h, Form[m], 1)
        y == IF Len(Form[m]) = 2 THEN Operand(h, Form[m], 2) ELSE 1
    IN CASE m \in {"ADD_REG_REG", "ADD_LIT_REG", "INC_REG"} -> (x + y) % U16
         [] m \in {"SUB_LIT_REG", "SUB_REG_LIT", "SUB_REG_REG", "DEC_REG"}
                -> (x - y + U16) % U16
         [] m \in {"MUL_LIT_REG", "MUL_REG_REG"} -> TimesMod(x, y)

\* the register instruction m of step h leaves its result in
Destination(m, h) ==
    IF m \in {"INC_REG", "DEC_REG"} THEN Encoded16(h, Form[m], 1)
    ELSE register.ACC

C11_ArithmeticWrapsAndCompletes ==
    (/\ Executed(Arithmetic)
     /\ NamesRegisters(LastStep, Form[MnemonicOf(LastStep.opcode)]))
        => /\ ~panicked
           /\ Reg(registers, Destination(MnemonicOf(LastStep.opcode), LastStep))
                  = Mathematical(MnemonicOf(LastStep.opcode), LastStep)


(***************************************************************************)
(* C12.  Every ADD, SUB, MUL, AND, OR, XOR and NOT instruction that        *)
(* completes leaves its result in ACC and changes nothing else except IP:  *)
(* every register other than ACC and IP, its operand registers included,   *)
(* the main memory, stack_frame_size and the interrupt flag are as before  *)
(* the step.                                                               *)
(***************************************************************************)
Logical ==
    {"AND_REG_REG", "AND_REG_LIT", "OR_REG_REG", "OR_REG_LIT",
     "XOR_REG_REG", "XOR_REG_LIT", "NOT_REG"}

IntoACC == (Arithmetic \ {"INC_REG", "DEC_REG"}) \cup Logical

\* the result of the instruction m of step h
Result(m, h) ==
    CASE m \in Arithmetic -> Mathematical(m, h)
      [] m \in {"AND_REG_REG", "AND_REG_LIT"}
             -> BitAnd(Operand(h, Form[m], 1), Operand(h, Form[m], 2))
      [] m \in {"OR_REG_REG", "OR_REG_LIT"}
             -> BitOr(Operand(h, Form[m], 1), Operand(h, Form[m], 2))
      [] m \in {"XOR_REG_REG", "XOR_REG_LIT"}
             -> BitXor(Operand(h, Form[m], 1), Operand(h, Form[m], 2))
      [] m = "NOT_REG" -> BitNot(Operand(h, Form[m], 1))

\* the registers other than these are as the last step found them
RegistersKeptExcept(changed) ==
    \A i \in DOMAIN LIST :
        LIST[i] \notin changed
            => Reg(registers, LIST[i]) = Reg(LastStep.registers, LIST[i])

\* memory, stack_frame_size and the interrupt flag are as the last step
\* found them
RestKept ==
    /\ memory = LastStep.memory
    /\ stack_frame_size = LastStep.stack_frame_size
    /\ is_in_interrupt_handler = LastStep.is_in_interrupt_handler

C12_ResultInACCAndNothingElseChanged ==
    (Stepped /\ Executed(IntoACC))
        => /\ NamesRegisters(LastStep, Form[MnemonicOf(LastStep.opcode)])
                 => Reg(registers, register.ACC)
                        = Result(MnemonicOf(LastStep.opcode), LastStep)
           /\ RegistersKeptExcept({register.ACC, register.IP})
           /\ RestKept

\* an instruction took a register other than ACC, holding a value, and left
\* another value in ACC
C12_OperandRegisterKept ==
    /\ Stepped /\ Executed(IntoACC)
    /\ Encoded16(LastStep, Form[MnemonicOf(LastStep.opcode)], 1) = register.R1
    /\ Reg(LastStep.registers, register.R1) # 0
    /\ Reg(registers, register.ACC) # Reg(LastStep.registers, register.ACC)
    /\ Reg(registers, register.ACC) # Reg(registers, register.R1)


(***************************************************************************)
(* C13.  A conditional jump (JNE, JEQ, JGT, JLT, JGE, JLE, literal and     *)
(* register forms) with operand x and target t leaves IP = t when the      *)
(* unsigned comparison `ACC <relation> x` holds, ACC on the left, and IP   *)
(* at the next instruction when it does not; so IP = t exactly when the    *)
(* comparison holds, for a target other than the next instruction.  No     *)
(* register other than IP and no memory is changed.                        *)
(***************************************************************************)
JumpTarget(h) == Operand(h, Form[MnemonicOf(h.opcode)], 2)

C13_JumpsExactlyWhenComparisonHolds ==
    (/\ Stepped /\ Executed(ConditionalJumps)
     /\ NamesRegisters(LastStep, Form[MnemonicOf(LastStep.opcode)]))
        => /\ Reg(registers, register.IP)
                  = IF Taken(MnemonicOf(LastStep.opcode), LastStep)
                    THEN JumpTarget(LastStep)
                    ELSE Following(LastStep)
           /\ JumpTarget(LastStep) # Following(LastStep)
                 => (Reg(registers, register.IP) = JumpTarget(LastStep)
                        <=> Taken(MnemonicOf(LastStep.opcode), LastStep))
           /\ RegistersKeptExcept({register.IP})
           /\ memory = LastStep.memory

\* a JGT was taken backwards on ACC > x > 0
C13_JumpedOnGreater ==
    /\ Stepped /\ Executed({"JGT_LIT_MEM"})
    /\ Reg(LastStep.registers, register.ACC) > Operand(LastStep, Form.JGT_LIT_MEM, 1)
    /\ Operand(LastStep, Form.JGT_LIT_MEM, 1) > 0
    /\ Reg(LastStep.registers, register.IP) > 0
    /\ Reg(registers, register.IP) = 0


(***************************************************************************)
(* C14.  INT n, n in 0 .. 15, for which bit n of IM is zero completes as a *)
(* no-op: IP advances past the instruction, and every other register, the  *)
(* memory, stack_frame_size and is_in_interrupt_handler are unchanged.     *)
(* With the initial IM = 0xff this is so for every n in 8 .. 15.           *)
(***************************************************************************)
\* the interrupt number of the INT of step h
InterruptNumber(h) == Encoded16(h, Form.INT, 1)

\* step h was an INT whose number is one of the vector's and is masked
MaskedInterrupt(h) ==
    /\ h.opcode = instruction.INT.opcode
    /\ InterruptNumber(h) < 16
    /\ Bit(Reg(h.registers, register.IM), InterruptNumber(h)) = 0

C14_MaskedInterruptIsNoOp ==
    (history # <<>> /\ MaskedInterrupt(LastStep))
        => /\ ~panicked
           /\ Reg(registers, register.IP) = Following(LastStep)
           /\ RegistersKeptExcept({register.IP})
           /\ RestKept

\* INT 15 was executed under the initial mask, after two pushes
C14_MaskedByInitialMask ==
    /\ Len(history) = 3 /\ MaskedInterrupt(LastStep)
    /\ InterruptNumber(LastStep) \in 8 .. 15
    /\ Reg(LastStep.registers, register.IM) = 255
    /\ LastStep.stack_frame_size = 4


(***************************************************************************)
(* C15.  INT n, n in 0 .. 15, with bit n of IM set: when                   *)
(* is_in_interrupt_handler is false the CPU performs push_state exactly    *)
(* once; when it is true no state is pushed, and SP, FP and the stack      *)
(* contents are unchanged.  In both cases the flag is true afterwards and  *)
(* IP is the big-endian 16-bit value stored at 0x1000 + 2n.                *)
(***************************************************************************)
\* step h was an INT whose number is one of the vector's and is not masked
DispatchedInterrupt(h) ==
    /\ h.opcode = instruction.INT.opcode
    /\ InterruptNumber(h) < 16
    /\ Bit(Reg(h.registers, register.IM), InterruptNumber(h)) = 1

\* the frames the last step pushed
PushedNow == {i \in DOMAIN frames : frames[i].step = Len(history)}

C15_DispatchPushesOnceOutsideHandler ==
    (Stepped /\ DispatchedInterrupt(LastStep))
        => /\ is_in_interrupt_handler
           /\ Reg(registers, register.IP)
                  = get_u16(LastStep.memory,
                            INTERRUPT_VECTOR_ADDRESS + 2 * InterruptNumber(LastStep)).v
           /\ ~LastStep.is_in_interrupt_handler
                 => /\ PushedNow = {Len(frames)}
                    /\ frames[Len(frames)].IP = Following(LastStep)
                    /\ GeneralRestored(frames[Len(frames)])
                    /\ Reg(registers, register.SP)
                           = Reg(LastStep.registers, register.SP) - 20
                    /\ Reg(registers, register.FP) = Reg(registers, register.SP)
                    /\ stack_frame_size = 0
           /\ LastStep.is_in_interrupt_handler
                 => /\ PushedNow = {}
                    /\ RegistersKeptExcept({register.IP})
                    /\ memory = LastStep.memory
                    /\ stack_frame_size = LastStep.stack_frame_size

\* an interrupt was raised inside the handler of another
C15_RaisedInsideHandler ==
    /\ Stepped /\ DispatchedInterrupt(LastStep)
    /\ LastStep.is_in_interrupt_handler
    /\ Len(frames) = 1
    /\ InterruptNumber(LastStep) # InterruptNumber(history[frames[1].step])


(***************************************************************************)
(* C16.  A RET_INT that completes sets is_in_interrupt_handler to false    *)
(* and pops exactly one 16-bit slot: SP increases by 2 and                 *)
(* stack_frame_size decreases by 2 (modulo 2^16).  It writes neither IP,   *)
(* beyond the advance past its opcode, nor FP, nor any of R1..R8.          *)
(***************************************************************************)
C16_ReturnFromInterruptPopsOneSlot ==
    (Stepped /\ Executed({"RET_INT"}))
        => /\ ~is_in_interrupt_handler
           /\ Reg(registers, register.SP) = Reg(LastStep.registers, register.SP) + 2
           /\ stack_frame_size = (LastStep.stack_frame_size + U16 - 2) % U16
           /\ Reg(registers, register.IP) = Following(LastStep)
           /\ RegistersKeptExcept({register.IP, register.SP})
           /\ memory = LastStep.memory

\* a handler that had pushed one word returned
C16_ReturnedFromHandler ==
    /\ Stepped /\ Executed({"RET_INT"})
    /\ LastStep.is_in_interrupt_handler
    /\ LastStep.stack_frame_size = 2
    /\ frames # <<>>


(***************************************************************************)
(* C17.  In every state of a legal execution (each POP_REG matched by an   *)
(* earlier push in the same frame, each RET matched by a CAL, each RET_INT *)
(* matched by a dispatched INT) stack_frame_size is even, no pop takes it  *)
(* below zero (the 16-bit counter neither underflows nor wraps), and it is *)
(* the number of bytes pushed since the most recent frame boundary.        *)
(***************************************************************************)
Illegal == <<[n |-> 0, kind |-> "illegal"]>>

\* the top frame of fs with n bytes pushed in it
WithTop(fs, n) == [fs EXCEPT ![Len(fs)].n = n]

\* The frames open after the first j steps, innermost last: the bytes pushed
\* in each and what opened it; Illegal once a step was not matched.
RECURSIVE OpenFrames(_)
OpenFrames(j) ==
    IF j = 0 THEN <<[n |-> 0, kind |-> "run"]>>
    ELSE LET fs == OpenFrames(j - 1)
             top == fs[Len(fs)]
             h == history[j]
         IN CASE fs = Illegal -> Illegal
              [] h.opcode \in OpcodesOf({"PSH_LIT", "PSH_REG"})
                     -> WithTop(fs, top.n + 2)
              [] h.opcode = instruction.POP_REG.opcode
                     -> IF top.n >= 2 THEN WithTop(fs, top.n - 2) ELSE Illegal
              [] h.opcode \in Calls -> Append(fs, [n |-> 0, kind |-> "CAL"])
              [] h.opcode = instruction.RET.opcode
                     -> IF top.kind = "CAL" THEN SubSeq(fs, 1, Len(fs) - 1)
                        ELSE Illegal
              [] DispatchedInterrupt(h) /\ ~h.is_in_interrupt_handler
                     -> Append(fs, [n |-> 0, kind |-> "INT"])
              [] h.opcode = instruction.RET_INT.opcode
                     -> IF top.kind = "INT" /\ h.is_in_interrupt_handler
                        THEN SubSeq(fs, 1, Len(fs) - 1)
                        ELSE Illegal
              [] OTHER -> fs

Legal == OpenFrames(Len(history)) # Illegal

\* a RET_INT was executed: it pops one word of the frame its INT pushed
\* and leaves the rest, so that no frame boundary is the most recent one
ReturnedFromInterrupt ==
    \E j \in DOMAIN history : history[j].opcode = instruction.RET_INT.opcode

C17_FrameSizeEvenCountedNeverNegative ==
    Legal
        => /\ ~panicked => stack_frame_size % 2 = 0
           /\ (history # <<>> /\ LastStep.opcode \in OpcodesOf({"POP_REG", "RET_INT"}))
                 => LastStep.stack_frame_size >= 2
           /\ (~panicked /\ ~ReturnedFromInterrupt)
                 => stack_frame_size
                        = OpenFrames(Len(history))[Len(OpenFrames(Len(history)))].n


(***************************************************************************)
(* C18.  run() returns exactly when a step fetches the HLT opcode (0xff):  *)
(* step() returns true for HLT and false for every other opcode, no        *)
(* instruction is fetched or executed after the first HLT, and as long as  *)
(* no HLT has been fetched run() has not returned.                         *)
(***************************************************************************)
C18_RunReturnsExactlyOnHLT ==
    /\ instruction.HLT.opcode = 255
    /\ halted <=> (Stepped /\ LastStep.opcode = instruction.HLT.opcode)
    /\ \A j \in 1 .. Len(history) - 1 :
           history[j].opcode # instruction.HLT.opcode
    /\ halted
          => /\ Reg(registers, register.IP) = Following(LastStep)
             /\ RegistersKeptExcept({register.IP})
             /\ RestKept

\* run() returned on a HLT that was not the program's first instruction
C18_HaltedAfterOtherSteps ==
    /\ halted
    /\ Len(history) >= 2
    /\ Len(history) < MaxSteps


(***************************************************************************)
(* assembler/parser.rs: the grouping of a bracketed expression.            *)
(* square_bracket_expression collects operands and operators in turn, an   *)
(* operand first and last, and hands the flat list to                      *)
(* group_binary_operations.                                                *)
(***************************************************************************)
Operator(op) == [type |-> "Operator", op |-> op]
Variable(name) == [type |-> "Variable", name |-> name]
BinaryOperation(op, a, b) == [type |-> "BinaryOperation", op |-> op, a |-> a, b |-> b]
Aborted == [type |-> "panic"]

Operator_priority(op) ==
    CASE op = "Plus" -> 1
      [] op = "Minus" -> 1
      [] op = "Star" -> 2

usize_MAX == 2147483647

\* the loop over the odd indices (counted from 0) of the list: the position
\* of the first operator of a priority below all before it, 0 on a panic.
\* i, pos and the result count from 1.
RECURSIVE LowestPosition(_, _, _, _)
LowestPosition(e, i, pos, priority) ==
    IF i > Len(e) THEN pos
    ELSE IF e[i].type # "Operator" THEN 0
    ELSE IF Operator_priority(e[i].op) < priority
         THEN LowestPosition(e, i + 2, i, Operator_priority(e[i].op))
         ELSE LowestPosition(e, i + 2, pos, priority)

\* group_binary_operations with the split at the last operator of the
\* lowest priority
RECURSIVE LastLowestPosition(_, _, _, _)
LastLowestPosition(e, i, pos, priority) ==
    IF i > Len(e) THEN pos
    ELSE IF e[i].type # "Operator" THEN 0
    ELSE IF Operator_priority(e[i].op) <= priority
         THEN LastLowestPosition(e, i + 2, i, Operator_priority(e[i].op))
         ELSE LastLowestPosition(e, i + 2, pos, priority)

RECURSIVE group_binary_operations_left_associative(_)
group_binary_operations_left_associative(e) ==
    IF Len(e) = 1 THEN e[1]
    ELSE Let(LastLowestPosition(e, 2, 2, usize_MAX), LAMBDA pos :
         IF pos = 0 \/ pos > Len(e) THEN Aborted
         ELSE Let(group_binary_operations_left_associative(SubSeq(e, 1, pos - 1)),
              LAMBDA a :
              Let(group_binary_operations_left_associative(SubSeq(e, pos + 1, Len(e))),
              LAMBDA b :
              IF Aborted \in {a, b} THEN Aborted
              ELSE BinaryOperation(e[pos], a, b))))

\* group_binary_operations with the two sides of the split exchanged
RECURSIVE group_binary_operations_sides_exchanged(_)
group_binary_operations_sides_exchanged(e) ==
    IF Len(e) = 1 THEN e[1]
    ELSE Let(LowestPosition(e, 2, 2, usize_MAX), LAMBDA pos :
         IF pos = 0 \/ pos > Len(e) THEN Aborted
         ELSE Let(group_binary_operations_sides_exchanged(SubSeq(e, 1, pos - 1)),
              LAMBDA a :
              Let(group_binary_operations_sides_exchanged(SubSeq(e, pos + 1, Len(e))),
              LAMBDA b :
              IF Aborted \in {a, b} THEN Aborted
              ELSE BinaryOperation(e[pos], b, a))))

\* remove(0) and remove(pos) panic on an index past the end, which an empty
\* list and a list that ends in an operator lead to
RECURSIVE group_binary_operations(_)
group_binary_operations(e) ==
    IF Len(e) = 1 THEN e[1]
    ELSE Let(LowestPosition(e, 2, 2, usize_MAX), LAMBDA pos :
         IF pos = 0 \/ pos > Len(e) THEN Aborted
         ELSE Let(group_binary_operations(SubSeq(e, 1, pos - 1)), LAMBDA a :
              Let(group_binary_operations(SubSeq(e, pos + 1, Len(e))), LAMBDA b :
              IF Aborted \in {a, b} THEN Aborted
              ELSE BinaryOperation(e[pos], a, b))))

MaxOperands == 4   \* operands of a bracketed expression

OperandNames == {"a", "b", "c"}
OperatorNames == {"Plus", "Minus", "Star"}

\* the flat lists of n operands with an operator between each two
RECURSIVE FlatExpressions(_)
FlatExpressions(n) ==
    IF n = 1 THEN {<<Variable(x)>> : x \in OperandNames}
    ELSE {e \o <<Operator(o), Variable(x)>> :
             e \in FlatExpressions(n - 1), o \in OperatorNames, x \in OperandNames}

InitParser ==
    /\ expression \in UNION {FlatExpressions(n) : n \in 1 .. MaxOperands}
    /\ grouped = NotGrouped
    /\ dut = NoDevice
    /\ written = <<>>
    /\ mapped = <<>>
    /\ call = <<>>
    /\ memory = NoDevice
    /\ registers = Memory_new(SIZE)
    /\ stack_frame_size = 0
    /\ is_in_interrupt_handler = FALSE
    /\ panicked = FALSE
    /\ halted = FALSE
    /\ overflow_checks = FALSE
    /\ frames = <<>>
    /\ history = <<>>
    /\ AssemblerIdle

\* result: group_binary_operations(result)
Group ==
    /\ grouped = NotGrouped
    /\ grouped' = group_binary_operations(expression)
    /\ UNCHANGED <<expression, dut, written, mapped, call, panicked>>
    /\ CPUUnchanged
    /\ AssemblerUnchanged

NextParser == Group

SpecParser == InitParser /\ [][NextParser]_vars


(***************************************************************************)
(* What the properties of the grouping read from a tree and a flat list.   *)
(***************************************************************************)
\* the operands and operators of a tree, left to right
RECURSIVE Flat(_)
Flat(tree) ==
    IF tree.type = "BinaryOperation" THEN Flat(tree.a) \o <<tree.op>> \o Flat(tree.b)
    ELSE <<tree>>

OperatorPositions(e) == {i \in DOMAIN e : e[i].type = "Operator"}

\* the position of the leftmost operator of the lowest priority in e
LeftmostLowest(e) ==
    CHOOSE i \in OperatorPositions(e) :
        \A j \in OperatorPositions(e) :
            /\ Operator_priority(e[i].op) <= Operator_priority(e[j].op)
            /\ j < i => Operator_priority(e[i].op) < Operator_priority(e[j].op)

\* no operand of a * in the tree is itself a + or a -
RECURSIVE StarBindsTighter(_)
StarBindsTighter(tree) ==
    tree.type = "BinaryOperation"
        => /\ StarBindsTighter(tree.a)
           /\ StarBindsTighter(tree.b)
           /\ tree.op.op = "Star"
                 => \A child \in {tree.a, tree.b} :
                        child.type = "BinaryOperation" => child.op.op = "Star"

Grouped == grouped # NotGrouped

(***************************************************************************)
(* C19.  For every well-formed flat expression, operands alternating with  *)
(* the operators + - and *, group_binary_operations makes * bind tighter   *)
(* than + and -:                                                           *)
(* [a + b * c] becomes a + (b * c), and the root of the tree is the        *)
(* leftmost operator of the lowest priority in the list, with the list     *)
(* before it on its left and the list after it on its right.               *)
(***************************************************************************)
C19_StarBindsTighterRootLeftmostLowest ==
    Grouped
        => /\ grouped # Aborted
           /\ Flat(grouped) = expression
           /\ StarBindsTighter(grouped)
           /\ Len(expression) > 1
                 => /\ grouped.type = "BinaryOperation"
                    /\ grouped.op = expression[LeftmostLowest(expression)]
                    /\ Flat(grouped.a)
                           = SubSeq(expression, 1, LeftmostLowest(expression) - 1)
           /\ expression = <<Variable("a"), Operator("Plus"), Variable("b"),
                             Operator("Star"), Variable("c")>>
                 => grouped = BinaryOperation(Operator("Plus"), Variable("a"),
                                  BinaryOperation(Operator("Star"), Variable("b"),
                                                  Variable("c")))

\* a * b + c - a was grouped
C19_GroupedStarPlusMinus ==
    /\ Grouped
    /\ expression = <<Variable("a"), Operator("Star"), Variable("b"),
                      Operator("Plus"), Variable("c"), Operator("Minus"),
                      Variable("a")>>
    /\ grouped.op = Operator("Plus")

(***************************************************************************)
(* C20.  Grouping is left-associative: a chain a op1 b op2 c of operators  *)
(* of equal precedence, such as [a - b - c], is rebuilt as                 *)
(* (a op1 b) op2 c.                                                        *)
(***************************************************************************)
C20_EqualPrecedenceGroupsToTheLeft ==
    (/\ Grouped
     /\ Len(expression) = 5
     /\ Operator_priority(expression[2].op) = Operator_priority(expression[4].op))
        => grouped = BinaryOperation(expression[4],
                         BinaryOperation(expression[2], expression[1], expression[3]),
                         expression[5])

(***************************************************************************)
(* assembler/parser.rs: the tree a statement is parsed into (enum Type).   *)
(* A String is a text; an instruction is its entry of the table of         *)
(* cpu/instruction.rs.                                                     *)
(***************************************************************************)
Ignored == [type |-> "Ignored"]
HexLiteral(v) == [type |-> "HexLiteral", v |-> v]
HexLiteral8(v) == [type |-> "HexLiteral8", v |-> v]
Address(v) == [type |-> "Address", v |-> v]
Register(name) == [type |-> "Register", name |-> name]
Label(name) == [type |-> "Label", name |-> name]
Instruction0(i) == [type |-> "Instruction0", instruction |-> i]
Instruction1(i, arg0) == [type |-> "Instruction1", instruction |-> i, arg0 |-> arg0]
Instruction2(i, arg0, arg1) ==
    [type |-> "Instruction2", instruction |-> i, arg0 |-> arg0, arg1 |-> arg1]
Instruction3(i, arg0, arg1, arg2) ==
    [type |-> "Instruction3", instruction |-> i, arg0 |-> arg0, arg1 |-> arg1,
     arg2 |-> arg2]

\* the digits of base 16, by value
LowerDigits ==
    <<"0", "1", "2", "3", "4", "5", "6", "7", "8", "9", "a", "b", "c", "d", "e", "f">>
UpperDigits ==
    <<"0", "1", "2", "3", "4", "5", "6", "7", "8", "9", "A", "B", "C", "D", "E", "F">>
DigitValue(c) ==
    (CHOOSE k \in 1 .. 16 : LowerDigits[k] = c \/ UpperDigits[k] = c) - 1

\* uN::from_str_radix(hex, 16) of a text of hex digits: the value, or limit
\* when the value does not fit below limit (the Err that expect() panics on)
RECURSIVE from_str_radix(_, _)
from_str_radix(hex, limit) ==
    IF hex = <<>> THEN 0
    ELSE Let(from_str_radix(SubSeq(hex, 1, Len(hex) - 1), limit), LAMBDA high :
         IF high * 16 + DigitValue(hex[Len(hex)]) >= limit THEN limit
         ELSE high * 16 + DigitValue(hex[Len(hex)]))

\* s.join(""): the texts of a Vec<String>, one after the other
RECURSIVE join(_)
join(s) == IF s = <<>> THEN <<>> ELSE Head(s) \o join(Tail(s))

\* the closures handed to Parser::map, by name, and their captured values
Fn(name, captured) == [fn |-> name, captured |-> captured]

\* formats.rs, to_instruction1
to_instruction1(i, parsed_instruction) == Instruction1(i, parsed_instruction[2])

\* formats.rs, to_instruction2
to_instruction2(i, parsed_instruction) ==
    Instruction2(i, parsed_instruction[2], parsed_instruction[3])

\* formats.rs, the closure of lit_off_reg
to_instruction3(i, res) == Instruction3(i, res[2], res[3], res[4])

\* the closure panics on v: expect() on a number that does not fit
Panics(f, v) ==
    \/ f.fn \in {"HexLiteral", "Address"} /\ from_str_radix(v, U16) = U16
    \/ f.fn = "HexLiteral8" /\ from_str_radix(v, U8) = U8
    \/ f.fn = "Operator" /\ v \notin {<<"+">>, <<"-">>, <<"*">>}

Apply(f, v) ==
    CASE f.fn = "Ignored" -> Ignored
      [] f.fn = "collect" -> v
      [] f.fn = "join" -> join(v)
      [] f.fn = "clone" -> f.captured
      [] f.fn = "HexLiteral" -> HexLiteral(from_str_radix(v, U16))
      [] f.fn = "HexLiteral8" -> HexLiteral8(from_str_radix(v, U8))
      [] f.fn = "Address" -> Address(from_str_radix(v, U16))
      [] f.fn = "Operator" ->
            (CASE v = <<"+">> -> Operator("Plus")
               [] v = <<"-">> -> Operator("Minus")
               [] v = <<"*">> -> Operator("Star"))
      [] f.fn = "Label" -> Label(v)
      [] f.fn = "Variable" -> Variable(v)
      [] f.fn = "Register" -> Register(v)
      [] f.fn = "Instruction0" -> Instruction0(f.captured)
      [] f.fn = "to_instruction1" -> to_instruction1(f.captured, v)
      [] f.fn = "to_instruction2" -> to_instruction2(f.captured, v)
      [] f.fn = "to_instruction3" -> to_instruction3(f.captured, v)

(***************************************************************************)
(* parser_combinator/core.rs and string.rs.  A text is a sequence of       *)
(* one-character strings.  A Parser is a value that names the function     *)
(* that built it and holds that function's arguments; parse(p, input)      *)
(* runs the closure the function made.  A ParseResult is Ok with the       *)
(* index behind what was consumed and the result, or Err with a message    *)
(* and an index.                                                           *)
(***************************************************************************)
Ok(index, result) == [ok |-> TRUE, index |-> index, result |-> result]
Err(message, index) == [ok |-> FALSE, index |-> index, message |-> message]

\* ParseError::new: ParseError { message, index: 0 }
ParseError_new(message) == Err(message, 0)

\* a closure panicked: the process is gone, and no combinator goes on
Abort == [ok |-> FALSE, index |-> -1, message |-> "panicked"]
Aborts(r) == ~r.ok /\ r.index = -1

\* the Parser values
Character(c) == [comb |-> "character", c |-> c]
Literal(expected) == [comb |-> "literal", expected |-> expected]
HexDigit == [comb |-> "hex_digit"]
AlphabeticChar == [comb |-> "alphabetic_char"]
Map(p, f) == [comb |-> "map", p |-> p, f |-> f]
ZeroOrMore(p) == [comb |-> "zero_or_more", p |-> p]
OneOrMore(p) == [comb |-> "one_or_more", p |-> p]
Left(a, b) == [comb |-> "left", a |-> a, b |-> b]
Right(a, b) == [comb |-> "right", a |-> a, b |-> b]
SequenceOf(parsers) == [comb |-> "sequence_of", parsers |-> parsers]
Interspersed(separator, parsers) ==
    [comb |-> "interspersed", separator |-> separator, parsers |-> parsers]
Between(before, p, after) ==
    [comb |-> "between", before |-> before, p |-> p, after |-> after]
OneOf(parsers) == [comb |-> "one_of", parsers |-> parsers]
SquareBracketExpression == [comb |-> "square_bracket_expression"]

HexDigits ==
    {"0", "1", "2", "3", "4", "5", "6", "7", "8", "9",
     "a", "b", "c", "d", "e", "f", "A", "B", "C", "D", "E", "F"}
Alphabetic ==
    {"a", "b", "c", "d", "e", "f", "g", "h", "i", "j", "k", "l", "m", "n", "o",
     "p", "q", "r", "s", "t", "u", "v", "w", "x", "y", "z",
     "A", "B", "C", "D", "E", "F", "G", "H", "I", "J", "K", "L", "M", "N", "O",
     "P", "Q", "R", "S", "T", "U", "V", "W", "X", "Y", "Z"}

\* &input[index..]
From(text, index) == SubSeq(text, index + 1, Len(text))

RECURSIVE parse(_, _)
RECURSIVE square_bracket_expression(_)

\* Parser::parse_at
parse_at(p, text, index) ==
    IF index > Len(text) THEN Err("End of line", index)
    ELSE Let(parse(p, From(text, index)), LAMBDA r :
         IF r.ok THEN Ok(r.index + index, r.result)
         ELSE IF Aborts(r) THEN Abort
         ELSE Err(r.message, index + r.index))

\* string::literal
literal(expected, text) ==
    IF Len(expected) <= Len(text) /\ SubSeq(text, 1, Len(expected)) = expected
    THEN Ok(Len(expected), expected)
    ELSE ParseError_new(<<"Could not match literal", expected>>)

\* string::character
character(c, text) ==
    IF text = <<>> THEN ParseError_new("Unexpected end of line")
    ELSE IF Head(text) = c THEN Ok(1, <<c>>)
    ELSE ParseError_new(<<"Expected", c, "found", Head(text)>>)

\* the closure of string::hexadecimal, before one_or_more
hex_digit(text) ==
    IF text # <<>> /\ Head(text) \in HexDigits THEN Ok(1, Head(text))
    ELSE ParseError_new("Not a hex digit")

\* the closure of string::alphabetic, before one_or_more
alphabetic_char(text) ==
    IF text # <<>> /\ Head(text) \in Alphabetic THEN Ok(1, Head(text))
    ELSE ParseError_new("Not an alphabetic character")

\* Parser::map
Parser_map(p, f, text) ==
    Let(parse(p, text), LAMBDA state :
        IF ~state.ok THEN state
        ELSE IF Panics(f, state.result) THEN Abort
        ELSE Ok(state.index, Apply(f, state.result)))

\* the loop of Parser::zero_or_more, from index on with result collected
RECURSIVE zero_or_more_loop(_, _, _, _)
zero_or_more_loop(p, text, index, result) ==
    Let(parse_at(p, text, index), LAMBDA state :
        IF state.ok
        THEN zero_or_more_loop(p, text, state.index, Append(result, state.result))
        ELSE IF Aborts(state) THEN Abort
        ELSE Ok(index, result))

\* Parser::zero_or_more
zero_or_more(p, text) == zero_or_more_loop(p, text, 0, <<>>)

\* Parser::one_or_more
one_or_more(p, text) ==
    Let(zero_or_more(p, text), LAMBDA state :
        IF ~state.ok THEN state
        ELSE IF state.result = <<>> THEN ParseError_new("Could not match one or more")
        ELSE state)

\* Parser::left
left(a, b, text) ==
    Let(parse(a, text), LAMBDA a_res :
        IF ~a_res.ok THEN a_res
        ELSE Let(parse_at(b, text, a_res.index), LAMBDA b_res :
             IF ~b_res.ok THEN b_res ELSE Ok(b_res.index, a_res.result)))

\* Parser::right
right(a, b, text) ==
    Let(parse(a, text), LAMBDA a_res :
        IF ~a_res.ok THEN a_res ELSE parse_at(b, text, a_res.index))

\* the loop of Parser::sequence_of, from the k-th parser on
RECURSIVE sequence_of_loop(_, _, _, _, _)
sequence_of_loop(parsers, text, k, i, results) ==
    IF k > Len(parsers) THEN Ok(i, results)
    ELSE Let(parse_at(parsers[k], text, i), LAMBDA r :
         IF ~r.ok THEN r
         ELSE sequence_of_loop(parsers, text, k + 1, r.index, Append(results, r.result)))

\* Parser::sequence_of
sequence_of(parsers, text) == sequence_of_loop(parsers, text, 1, 0, <<>>)

\* the loop of Parser::interspersed, from the k-th parser on
RECURSIVE interspersed_loop(_, _, _, _, _, _)
interspersed_loop(separator, parsers, text, k, i, results) ==
    IF k > Len(parsers) THEN Ok(i, results)
    ELSE Let(parse_at(parsers[k], text, i), LAMBDA r :
         IF ~r.ok THEN r
         ELSE IF k # Len(parsers)
         THEN Let(parse_at(separator, text, r.index), LAMBDA s :
              IF ~s.ok THEN s
              ELSE interspersed_loop(separator, parsers, text, k + 1, s.index,
                                     Append(results, r.result)))
         ELSE interspersed_loop(separator, parsers, text, k + 1, r.index,
                                Append(results, r.result)))

\* Parser::interspersed
interspersed(separator, parsers, text) ==
    interspersed_loop(separator, parsers, text, 1, 0, <<>>)

\* Parser::between
between(before, p, after, text) ==
    Let(parse(before, text), LAMBDA s1 :
        IF ~s1.ok THEN s1
        ELSE Let(parse_at(p, text, s1.index), LAMBDA result :
             IF ~result.ok THEN result
             ELSE Let(parse_at(after, text, result.index), LAMBDA s2 :
                  IF ~s2.ok THEN s2 ELSE Ok(s2.index, result.result))))

\* the loop of Parser::one_of, from the k-th parser on with errors collected
RECURSIVE one_of_loop(_, _, _, _)
one_of_loop(parsers, text, k, errors) ==
    IF k > Len(parsers)
    THEN ParseError_new(<<"Could not match any parsers", errors>>)
    ELSE Let(parse(parsers[k], text), LAMBDA r :
         IF r.ok \/ Aborts(r) THEN r
         ELSE one_of_loop(parsers, text, k + 1, Append(errors, r.message)))

\* one_of that goes on to the last parser that matches
RECURSIVE one_of_last_match(_, _)
one_of_last_match(parsers, text) ==
    IF parsers = <<>> THEN ParseError_new(<<"Could not match any parsers", <<>>>>)
    ELSE Let(parse(parsers[Len(parsers)], text), LAMBDA r :
         IF r.ok \/ Aborts(r) THEN r
         ELSE one_of_last_match(SubSeq(parsers, 1, Len(parsers) - 1), text))

\* Parser::one_of
one_of(parsers, text) == one_of_loop(parsers, text, 1, <<>>)

\* Parser::parse: the closure of the function that built p
parse(p, text) ==
    CASE p.comb = "character" -> character(p.c, text)
      [] p.comb = "literal" -> literal(p.expected, text)
      [] p.comb = "hex_digit" -> hex_digit(text)
      [] p.comb = "alphabetic_char" -> alphabetic_char(text)
      [] p.comb = "map" -> Parser_map(p.p, p.f, text)
      [] p.comb = "zero_or_more" -> zero_or_more(p.p, text)
      [] p.comb = "one_or_more" -> one_or_more(p.p, text)
      [] p.comb = "left" -> left(p.a, p.b, text)
      [] p.comb = "right" -> right(p.a, p.b, text)
      [] p.comb = "sequence_of" -> sequence_of(p.parsers, text)
      [] p.comb = "interspersed" -> interspersed(p.separator, p.parsers, text)
      [] p.comb = "between" -> between(p.before, p.p, p.after, text)
      [] p.comb = "one_of" -> one_of(p.parsers, text)
      [] p.comb = "square_bracket_expression" -> square_bracket_expression(text)

\* string.rs
hexadecimal == Map(OneOrMore(HexDigit), Fn("collect", <<>>))
alphabetic == Map(OneOrMore(AlphabeticChar), Fn("collect", <<>>))
optional_whitespace == Map(ZeroOrMore(Character(" ")), Fn("join", <<>>))
whitespace == Map(OneOrMore(Character(" ")), Fn("join", <<>>))

\* assembler/parser.rs
hex_literal == Map(Right(Character("$"), hexadecimal), Fn("HexLiteral", <<>>))
hex_literal8 == Map(Right(Character("$"), hexadecimal), Fn("HexLiteral8", <<>>))
operator ==
    Map(OneOf(<<Character("+"), Character("-"), Character("*")>>), Fn("Operator", <<>>))
address == Map(Right(Character("&"), hexadecimal), Fn("Address", <<>>))
label == Map(Left(alphabetic, Character(":")), Fn("Label", <<>>))
variable == Map(Right(Character("!"), alphabetic), Fn("Variable", <<>>))

\* assembler/parser.rs, register(): the names in the order they are tried
RegisterNames ==
    <<<<"I", "P">>, <<"A", "C", "C">>, <<"R", "1">>, <<"R", "2">>, <<"R", "3">>,
      <<"R", "4">>, <<"R", "5">>, <<"R", "6">>, <<"R", "7">>, <<"R", "8">>,
      <<"S", "P">>, <<"F", "P">>, <<"M", "B">>>>
parser_register ==
    Map(OneOf([k \in 1 .. Len(RegisterNames) |-> Literal(RegisterNames[k])]),
        Fn("Register", <<>>))

\* the loop of square_bracket_expression, from index on with result collected
RECURSIVE square_bracket_loop(_, _, _, _)
square_bracket_loop(text, index, result, expect_operator) ==
    IF expect_operator
    THEN IF index >= Len(text) THEN Err("EOL", index)
         ELSE IF text[index + 1] = "]"
         THEN Let(parse_at(Character("]"), text, index), LAMBDA close :
              IF ~close.ok THEN close
              ELSE Let(group_binary_operations(result), LAMBDA tree :
                   IF tree.type = "panic" THEN Abort ELSE Ok(close.index, tree)))
         ELSE Let(parse_at(operator, text, index), LAMBDA state :
              IF ~state.ok THEN state
              ELSE Let(parse_at(optional_whitespace, text, state.index), LAMBDA ws :
                   IF ~ws.ok THEN ws
                   ELSE square_bracket_loop(text, ws.index,
                                            Append(result, state.result), FALSE)))
    ELSE Let(parse_at(OneOf(<<SquareBracketExpression, hex_literal, variable>>),
                      text, index), LAMBDA state :
         IF ~state.ok THEN state
         ELSE Let(parse_at(optional_whitespace, text, state.index), LAMBDA ws :
              IF ~ws.ok THEN ws
              ELSE square_bracket_loop(text, ws.index,
                                       Append(result, state.result), TRUE)))

\* assembler/parser.rs, square_bracket_expression
square_bracket_expression(text) ==
    Let(character("[", text), LAMBDA open :
        IF ~open.ok THEN open
        ELSE Let(parse_at(optional_whitespace, text, open.index), LAMBDA ws :
             IF ~ws.ok THEN ws
             ELSE square_bracket_loop(text, ws.index, <<>>, FALSE)))

(***************************************************************************)
(* assembler/formats.rs: the parser of each statement format, for the      *)
(* command word and the instruction it is built for.                       *)
(***************************************************************************)
Command(command) == Map(Literal(command), Fn("Ignored", <<>>))
LiteralOperand == OneOf(<<hex_literal, SquareBracketExpression>>)
MemoryOperand == OneOf(<<address, Right(Character("&"), SquareBracketExpression)>>)

lit_reg(command, i) ==
    Map(Interspersed(whitespace,
                     <<Command(command), LiteralOperand,
                       Left(parser_register, optional_whitespace)>>),
        Fn("to_instruction2", i))

lit_off_reg(command, i) ==
    Map(Interspersed(whitespace,
                     <<Command(command), LiteralOperand, parser_register,
                       Left(parser_register, optional_whitespace)>>),
        Fn("to_instruction3", i))

reg_reg(command, i) ==
    Map(Interspersed(whitespace,
                     <<Command(command), parser_register,
                       Left(parser_register, optional_whitespace)>>),
        Fn("to_instruction2", i))

mem_reg(command, i) ==
    Map(Interspersed(whitespace,
                     <<Command(command), MemoryOperand,
                       Left(parser_register, optional_whitespace)>>),
        Fn("to_instruction2", i))

reg_mem(command, i) ==
    Map(Interspersed(whitespace,
                     <<Command(command), parser_register,
                       Left(MemoryOperand, optional_whitespace)>>),
        Fn("to_instruction2", i))

lit_mem(command, i) ==
    Map(Interspersed(whitespace,
                     <<Command(command), LiteralOperand,
                       Left(MemoryOperand, optional_whitespace)>>),
        Fn("to_instruction2", i))

reg_ptr_reg(command, i) ==
    Map(Interspersed(whitespace,
                     <<Command(command), Right(Character("&"), parser_register),
                       Left(parser_register, optional_whitespace)>>),
        Fn("to_instruction2", i))

lit(command, i) ==
    Map(Interspersed(whitespace,
                     <<Command(command), Left(LiteralOperand, optional_whitespace)>>),
        Fn("to_instruction1", i))

reg(command, i) ==
    Map(Interspersed(whitespace,
                     <<Command(command), Left(parser_register, optional_whitespace)>>),
        Fn("to_instruction1", i))

no_arg(command, i) ==
    Left(Map(Literal(command), Fn("Instruction0", i)), optional_whitespace)

(***************************************************************************)
(* The parsers the combinators are run on: the primitives, every           *)
(* combinator over the primitives, and sequence_of, one_of, left, right    *)
(* and one_or_more over the parsers built from the two character parsers   *)
(* with these five; and the texts, over the characters the primitives      *)
(* look for.                                                               *)
(***************************************************************************)
MaxInput == 3   \* characters of the text a parser is run on

Primitives == {Character("a"), Character("b"), Literal(<<"a", "b">>)}
Separators == {Character("a"), Character("b")}

Composites(children) ==
    {SequenceOf(<<p, q>>) : p \in children, q \in children}
        \cup {OneOf(<<p, q>>) : p \in children, q \in children}
        \cup {Left(p, q) : p \in children, q \in children}
        \cup {Right(p, q) : p \in children, q \in children}
        \cup {OneOrMore(p) : p \in children}

Simple ==
    Primitives \cup Composites(Primitives)
        \cup {OneOf(<<p, q, r>>) : p \in Separators, q \in Separators, r \in Primitives}
        \cup {Between(s, p, r) : s \in Separators, p \in Primitives, r \in Separators}
        \cup {Interspersed(s, <<p, q>>) :
                 s \in Separators, p \in Separators, q \in Primitives}

Nested == Composites(Separators \cup Composites(Separators))

Parsers == Simple \cup Nested

RECURSIVE Texts(_)
Texts(n) ==
    IF n = 0 THEN {<<>>}
    ELSE Texts(n - 1) \cup {Append(text, c) : text \in Texts(n - 1), c \in {"a", "b"}}

InitCombinator ==
    /\ combinator \in Parsers
    /\ input \in Texts(MaxInput)
    /\ parsed = NotRun
    /\ source = <<>>
    /\ ast = NotRun
    /\ compiled = NotRun
    /\ expression = <<>>
    /\ grouped = NotGrouped
    /\ dut = NoDevice
    /\ written = <<>>
    /\ mapped = <<>>
    /\ call = <<>>
    /\ memory = NoDevice
    /\ registers = Memory_new(SIZE)
    /\ stack_frame_size = 0
    /\ is_in_interrupt_handler = FALSE
    /\ panicked = FALSE
    /\ halted = FALSE
    /\ overflow_checks = FALSE
    /\ frames = <<>>
    /\ history = <<>>

CombinatorFrame ==
    /\ UNCHANGED <<combinator, input, source, ast, compiled, expression, grouped,
                   dut, written, mapped, call, panicked>>
    /\ CPUUnchanged

\* combinator.parse(input)
Parse ==
    /\ parsed = NotRun
    /\ parsed' = [at |-> 0, result |-> parse(combinator, input)]
    /\ CombinatorFrame

\* combinator.parse_at(input, index)
ParseAt ==
    /\ parsed = NotRun
    /\ \E index \in 0 .. Len(input) + 1 :
          parsed' = [at |-> index, result |-> parse_at(combinator, input, index)]
    /\ CombinatorFrame

NextCombinator == Parse \/ ParseAt

SpecCombinator == InitCombinator /\ [][NextCombinator]_vars

(***************************************************************************)
(* cpu/register.rs, get_from_string: the register a name stands for.       *)
(* -1 stands for the panic on a name that is none of the fourteen.         *)
(***************************************************************************)
Name ==
    [IP |-> <<"I", "P">>, ACC |-> <<"A", "C", "C">>, R1 |-> <<"R", "1">>,
     R2 |-> <<"R", "2">>, R3 |-> <<"R", "3">>, R4 |-> <<"R", "4">>,
     R5 |-> <<"R", "5">>, R6 |-> <<"R", "6">>, R7 |-> <<"R", "7">>,
     R8 |-> <<"R", "8">>, SP |-> <<"S", "P">>, FP |-> <<"F", "P">>,
     MB |-> <<"M", "B">>, IM |-> <<"I", "M">>]

get_from_string(s) ==
    CASE s = Name.IP -> register.IP
      [] s = Name.ACC -> register.ACC
      [] s = Name.R1 -> register.R1
      [] s = Name.R2 -> register.R2
      [] s = Name.R3 -> register.R3
      [] s = Name.R4 -> register.R4
      [] s = Name.R5 -> register.R5
      [] s = Name.R6 -> register.R6
      [] s = Name.R7 -> register.R7
      [] s = Name.R8 -> register.R8
      [] s = Name.SP -> register.SP
      [] s = Name.FP -> register.FP
      [] s = Name.MB -> register.FP
      [] s = Name.IM -> register.IM
      [] OTHER -> -1

(***************************************************************************)
(* The statement formats of the two operand shapes of the instruction      *)
(* table that formats.rs has no parser for, a register followed by a       *)
(* 16-bit literal and a register followed by an 8-bit literal, composed    *)
(* as the formats of formats.rs are.                                       *)
(***************************************************************************)
reg_lit(command, i) ==
    Map(Interspersed(whitespace,
                     <<Command(command), parser_register,
                       Left(LiteralOperand, optional_whitespace)>>),
        Fn("to_instruction2", i))

reg_lit8(command, i) ==
    Map(Interspersed(whitespace,
                     <<Command(command), parser_register,
                       Left(hex_literal8, optional_whitespace)>>),
        Fn("to_instruction2", i))

(***************************************************************************)
(* Compilation, which main.rs calls as assembler::compile.  Two passes     *)
(* over the parsed statements: the first gives every label the address     *)
(* the statement after it is laid out at, counting the declared size of    *)
(* each instruction; the second writes each instruction as its opcode and  *)
(* its operands in turn.  A compilation ends in the bytes or in an error.  *)
(***************************************************************************)
Compiled(bytes) == [ok |-> TRUE, bytes |-> bytes]
Failure(error) == [ok |-> FALSE, error |-> error]

InstructionTypes == {"Instruction0", "Instruction1", "Instruction2", "Instruction3"}

\* the operands of an instruction statement, in the order of its fields
Args(statement) ==
    CASE statement.type = "Instruction0" -> <<>>
      [] statement.type = "Instruction1" -> <<statement.arg0>>
      [] statement.type = "Instruction2" -> <<statement.arg0, statement.arg1>>
      [] statement.type = "Instruction3" ->
            <<statement.arg0, statement.arg1, statement.arg2>>

\* pass 1 over the statements from the k-th on: the symbol table, a
\* sequence of labels with their addresses
RECURSIVE layout_loop(_, _, _, _)
layout_loop(statements, k, current_address, symbols) ==
    IF k > Len(statements) THEN symbols
    ELSE IF statements[k].type = "Label"
    THEN layout_loop(statements, k + 1, current_address,
                     Append(symbols, [name |-> statements[k].name,
                                      address |-> current_address]))
    ELSE IF statements[k].type \in InstructionTypes
    THEN layout_loop(statements, k + 1,
                     current_address + statements[k].instruction.size, symbols)
    ELSE layout_loop(statements, k + 1, current_address, symbols)

\* pass 1 that lays a label out as one byte
RECURSIVE layout_counting_labels(_, _)
layout_counting_labels(statements, at) ==
    IF statements = <<>> THEN <<>>
    ELSE IF Head(statements).type = "Label"
    THEN <<[name |-> Head(statements).name, address |-> at]>>
             \o layout_counting_labels(Tail(statements), at + 1)
    ELSE IF Head(statements).type \in InstructionTypes
    THEN layout_counting_labels(Tail(statements),
                                at + Head(statements).instruction.size)
    ELSE layout_counting_labels(Tail(statements), at)

layout(statements, at) == layout_loop(statements, 1, at, <<>>)

Defined(symbols, name) == \E k \in DOMAIN symbols : symbols[k].name = name
Resolve(symbols, name) ==
    symbols[CHOOSE k \in DOMAIN symbols : symbols[k].name = name].address

\* the bytes of one operand
encode_operand(arg, symbols) ==
    CASE arg.type = "HexLiteral" -> Compiled(to_be_bytes(arg.v))
      [] arg.type = "HexLiteral8" -> Compiled(<<arg.v>>)
      [] arg.type = "Address" -> Compiled(to_be_bytes(arg.v))
      [] arg.type = "Register" ->
            IF get_from_string(arg.name) = -1 THEN Failure("panicked")
            ELSE Compiled(<<get_from_string(arg.name)>>)
      [] arg.type = "Variable" ->
            IF Defined(symbols, arg.name)
            THEN Compiled(to_be_bytes(Resolve(symbols, arg.name)))
            ELSE Failure("unresolved label")
      [] OTHER -> Failure("unsupported operand")

\* the bytes of the operands from the k-th on, after bytes
RECURSIVE encode_operands(_, _, _, _)
encode_operands(args, symbols, k, bytes) ==
    IF k > Len(args) THEN Compiled(bytes)
    ELSE Let(encode_operand(args[k], symbols), LAMBDA operand :
         IF ~operand.ok THEN operand
         ELSE encode_operands(args, symbols, k + 1, bytes \o operand.bytes))

\* pass 2 over the statements from the k-th on, after bytes
RECURSIVE emit_loop(_, _, _, _)
emit_loop(statements, symbols, k, bytes) ==
    IF k > Len(statements) THEN Compiled(bytes)
    ELSE IF statements[k].type = "Label"
    THEN emit_loop(statements, symbols, k + 1, bytes)
    ELSE IF statements[k].type \in InstructionTypes
    THEN Let(encode_operands(Args(statements[k]), symbols, 1,
                             <<statements[k].instruction.opcode>>), LAMBDA encoded :
         IF ~encoded.ok THEN encoded
         ELSE emit_loop(statements, symbols, k + 1, bytes \o encoded.bytes))
    ELSE Failure("not a statement")

emit(statements, symbols) == emit_loop(statements, symbols, 1, <<>>)

compile(statements) == emit(statements, layout(statements, 0))

(***************************************************************************)
(* The programs that are compiled.  A statement is the text of one line    *)
(* with the format it is written in, the command word and the instruction  *)
(* the format parser is built for; a label is a line of its own.           *)
(***************************************************************************)
MaxStatements == 3   \* statements of a program with labels

\* the statement format of each instruction: the operand shapes of its
\* arm of execute(), by the names of formats.rs
FormatOf(m) ==
    CASE m = "MOVE_REG_PTR_REG" -> "reg_ptr_reg"
      [] m = "MOVE_LIT_OFF_REG" -> "lit_off_reg"
      [] m \notin {"MOVE_REG_PTR_REG", "MOVE_LIT_OFF_REG"} ->
            (CASE Form[m] = <<>> -> "no_arg"
               [] Form[m] = <<"reg">> -> "reg"
               [] Form[m] \in {<<"lit">>, <<"code">>, <<"int">>} -> "lit"
               [] Form[m] = <<"reg", "reg">> -> "reg_reg"
               [] Form[m] = <<"lit", "reg">> -> "lit_reg"
               [] Form[m] = <<"reg", "lit">> -> "reg_lit"
               [] Form[m] = <<"reg", "shift">> -> "reg_lit8"
               [] Form[m] = <<"mem", "reg">> -> "mem_reg"
               [] Form[m] \in {<<"reg", "mem">>, <<"reg", "code">>} -> "reg_mem"
               [] Form[m] \in {<<"lit", "mem">>, <<"lit", "code">>} -> "lit_mem")

\* the operand texts the statements are written with
LiteralTexts == {<<"$", "4", "2", "0", "0">>, <<"$", "1">>, <<"[", "!", "a", "]">>}
RegisterTexts == {Name.R1, Name.ACC, Name.MB}
MemoryTexts == {<<"&", "A", "A", "A", "A">>, <<"&", "1", "2">>,
                <<"&", "[", "!", "a", "]">>}
PointerTexts == {<<"&">> \o Name.R2}
Literal8Texts == {<<"$", "1">>, <<"$", "f", "f">>}
Commands == {<<"m", "o", "v">>, <<"j", "e", "q">>}

OperandTexts(format) ==
    CASE format = "lit_reg" -> LiteralTexts \X RegisterTexts
      [] format = "lit_off_reg" -> LiteralTexts \X RegisterTexts \X RegisterTexts
      [] format = "reg_reg" -> RegisterTexts \X RegisterTexts
      [] format = "mem_reg" -> MemoryTexts \X RegisterTexts
      [] format = "reg_mem" -> RegisterTexts \X MemoryTexts
      [] format = "lit_mem" -> LiteralTexts \X MemoryTexts
      [] format = "reg_ptr_reg" -> PointerTexts \X RegisterTexts
      [] format = "lit" -> {<<t>> : t \in LiteralTexts}
      [] format = "reg" -> {<<t>> : t \in RegisterTexts}
      [] format = "no_arg" -> {<<>>}
      [] format = "reg_lit" -> RegisterTexts \X LiteralTexts
      [] format = "reg_lit8" -> RegisterTexts \X Literal8Texts

\* the words of a line with one space between them
RECURSIVE Spaced(_)
Spaced(words) ==
    IF Len(words) = 1 THEN words[1]
    ELSE words[1] \o <<" ">> \o Spaced(Tail(words))

Statement(format, command, m, operands) ==
    [format |-> format, command |-> command, mnemonic |-> m, operands |-> operands,
     text |-> Spaced(<<command>> \o operands)]

LabelLine(name) ==
    [format |-> "label", command |-> <<>>, mnemonic |-> "", operands |-> <<>>,
     text |-> name \o <<":">>]

\* the mnemonics of instruction.rs
Assembled == Mnemonics \ {"INT", "RET_INT"}

Statements ==
    UNION {{Statement(FormatOf(m), command, m, operands) :
               command \in Commands, operands \in OperandTexts(FormatOf(m))} :
           m \in Assembled}

\* the lines the programs with labels are made of
Lines ==
    {LabelLine(<<"a">>), LabelLine(<<"b", "c">>),
     Statement("lit_reg", <<"m", "o", "v">>, "MOVE_LIT_REG",
               <<<<"$", "2", "3", "4", "5">>, Name.ACC>>),
     Statement("lit_mem", <<"j", "e", "q">>, "JEQ_LIT_MEM",
               <<<<"$", "4", "2", "0", "0">>, <<"&", "[", "!", "a", "]">>>>),
     Statement("lit", <<"p", "s", "h">>, "PSH_LIT", <<<<"[", "!", "b", "c", "]">>>>),
     [Statement("no_arg", <<"h", "l", "t">>, "HLT", <<>>) EXCEPT !.text = @ \o <<" ">>]}

RECURSIVE LinesOf(_)
LinesOf(n) ==
    IF n = 0 THEN {<<>>}
    ELSE LinesOf(n - 1) \cup {Append(p, l) : p \in LinesOf(n - 1), l \in Lines}

\* labels are unique within a program
UniqueLabels(program) ==
    \A j, k \in DOMAIN program :
        (program[j].format = "label" /\ program[j] = program[k]) => j = k

Sources ==
    {<<s>> : s \in Statements}
        \cup {p \in LinesOf(MaxStatements) : p # <<>> /\ UniqueLabels(p)}

\* the parser of a line
StatementParser(s) ==
    CASE s.format = "label" -> label
      [] s.format = "lit_reg" -> lit_reg(s.command, instruction[s.mnemonic])
      [] s.format = "lit_off_reg" -> lit_off_reg(s.command, instruction[s.mnemonic])
      [] s.format = "reg_reg" -> reg_reg(s.command, instruction[s.mnemonic])
      [] s.format = "mem_reg" -> mem_reg(s.command, instruction[s.mnemonic])
      [] s.format = "reg_mem" -> reg_mem(s.command, instruction[s.mnemonic])
      [] s.format = "lit_mem" -> lit_mem(s.command, instruction[s.mnemonic])
      [] s.format = "reg_ptr_reg" -> reg_ptr_reg(s.command, instruction[s.mnemonic])
      [] s.format = "lit" -> lit(s.command, instruction[s.mnemonic])
      [] s.format = "reg" -> reg(s.command, instruction[s.mnemonic])
      [] s.format = "no_arg" -> no_arg(s.command, instruction[s.mnemonic])
      [] s.format = "reg_lit" -> reg_lit(s.command, instruction[s.mnemonic])
      [] s.format = "reg_lit8" -> reg_lit8(s.command, instruction[s.mnemonic])

InitAssembler ==
    /\ source \in Sources
    /\ ast = NotRun
    /\ compiled = NotRun
    /\ combinator = NotRun
    /\ input = <<>>
    /\ parsed = NotRun
    /\ expression = <<>>
    /\ grouped = NotGrouped
    /\ dut = NoDevice
    /\ written = <<>>
    /\ mapped = <<>>
    /\ call = <<>>
    /\ memory = NoDevice
    /\ registers = Memory_new(SIZE)
    /\ stack_frame_size = 0
    /\ is_in_interrupt_handler = FALSE
    /\ panicked = FALSE
    /\ halted = FALSE
    /\ overflow_checks = FALSE
    /\ frames = <<>>
    /\ history = <<>>

AssemblerFrame ==
    /\ UNCHANGED <<source, combinator, input, parsed, expression, grouped,
                   dut, written, mapped, call, panicked>>
    /\ CPUUnchanged

\* every line is parsed by the parser of its format
ParseStatements ==
    /\ ast = NotRun
    /\ ast' = [k \in DOMAIN source |-> parse(StatementParser(source[k]), source[k].text)]
    /\ UNCHANGED compiled
    /\ AssemblerFrame

\* every line was parsed to its end
ParsedWhole ==
    \A k \in DOMAIN ast : ast[k].ok /\ ast[k].index = Len(source[k].text)

\* the parsed statements are compiled
Compile ==
    /\ ast # NotRun
    /\ compiled = NotRun
    /\ compiled' = IF ParsedWhole THEN compile([k \in DOMAIN ast |-> ast[k].result])
                   ELSE Failure("parse error")
    /\ UNCHANGED ast
    /\ AssemblerFrame

NextAssembler == ParseStatements \/ Compile

SpecAssembler == InitAssembler /\ [][NextAssembler]_vars

(***************************************************************************)
(* What the properties of one_of and of the error index read.              *)
(***************************************************************************)
Ran == parsed # NotRun

\* what each alternative of the one_of that was run returns when it is run
\* at the same index of the same text
Alternatives ==
    [k \in 1 .. Len(combinator.parsers) |->
        parse_at(combinator.parsers[k], input, parsed.at)]

\* the first alternative that succeeds
FirstMatch(results) ==
    CHOOSE k \in DOMAIN results : results[k].ok /\ \A j \in 1 .. k - 1 : ~results[j].ok

(***************************************************************************)
(* C24.  one_of(p1 .. pk) run at an index of a text returns what the first *)
(* of p1 .. pk that succeeds at that index returns, index and result, and  *)
(* it fails exactly when every one of them fails there.                    *)
(***************************************************************************)
C24_OneOfReturnsFirstMatch ==
    (Ran /\ combinator.comb = "one_of")
        => IF \E k \in DOMAIN Alternatives : Alternatives[k].ok
           THEN parsed.result = Alternatives[FirstMatch(Alternatives)]
           ELSE ~parsed.result.ok

\* one_of was run where its first alternative fails and two later ones
\* succeed with different results
C24_SecondOfThreeMatched ==
    /\ Ran
    /\ combinator.comb = "one_of"
    /\ Len(combinator.parsers) = 3
    /\ ~Alternatives[1].ok
    /\ Alternatives[2].ok
    /\ Alternatives[3].ok
    /\ Alternatives[2] # Alternatives[3]
    /\ parsed.at > 0
    /\ parsed.result = Alternatives[2]

\* the parsers a combinator runs one after the other, each from the index
\* the one before it ended at
Children(p) ==
    CASE p.comb = "sequence_of" -> p.parsers
      [] p.comb = "interspersed" ->
            [k \in 1 .. 2 * Len(p.parsers) - 1 |->
                IF k % 2 = 1 THEN p.parsers[(k + 1) \div 2] ELSE p.separator]
      [] p.comb \in {"left", "right"} -> <<p.a, p.b>>
      [] p.comb = "between" -> <<p.before, p.p, p.after>>
      [] p.comb = "one_or_more" -> <<p.p>>

\* the error of the first of the children to fail, run in turn from index on
RECURSIVE FirstFailure(_, _, _)
FirstFailure(children, text, index) ==
    Let(parse_at(Head(children), text, index), LAMBDA r :
        IF r.ok THEN FirstFailure(Tail(children), text, r.index) ELSE r)

\* the largest index at which one of the alternatives failed
Furthest(results) ==
    CHOOSE i \in {results[k].index : k \in DOMAIN results} :
        \A k \in DOMAIN results : results[k].index <= i

Failed == Ran /\ ~parsed.result.ok /\ parsed.at <= Len(input)

(***************************************************************************)
(* C25.  When a parser built by sequence_of, interspersed, left, right,    *)
(* between, one_or_more or one_of fails on a text, the index of its error  *)
(* is the index of the text at which the child that failed reported its    *)
(* failure; for one_of, the largest such index among the alternatives.     *)
(***************************************************************************)
C25_ErrorIndexIsWhereTheChildFailed ==
    (Failed /\ combinator.comb \notin {"character", "literal"})
        => parsed.result.index
               = IF combinator.comb = "one_of" THEN Furthest(Alternatives)
                 ELSE FirstFailure(Children(combinator), input, parsed.at).index

(***************************************************************************)
(* What the properties of compilation read.                                *)
(***************************************************************************)
Compiles == compiled # NotRun

\* one instruction statement was compiled
OneStatement == Compiles /\ Len(source) = 1 /\ source[1].format # "label"

\* the offset of the register called name in the register file
OwnOffset(name) == register[CHOOSE n \in DOMAIN Name : Name[n] = name]

RegisterNamed(text) == \E n \in DOMAIN Name : Name[n] = text

\* an operand text that is a register, a pointer to a register, a literal or
\* an address in hexadecimal
Plain(text) == Head(text) # "[" /\ (Head(text) = "&" => text[2] # "[")

\* the bytes such an operand is to be encoded as; an 8-bit literal is the
\* second operand of the format reg_lit8
Canonical(format, k, text) ==
    CASE RegisterNamed(text) -> <<OwnOffset(text)>>
      [] Head(text) = "&" /\ RegisterNamed(Tail(text)) -> <<OwnOffset(Tail(text))>>
      [] Head(text) = "&" /\ ~RegisterNamed(Tail(text)) ->
            to_be_bytes(from_str_radix(Tail(text), U16))
      [] Head(text) = "$" /\ format = "reg_lit8" -> <<from_str_radix(Tail(text), U8)>>
      [] Head(text) = "$" /\ format # "reg_lit8" ->
            to_be_bytes(from_str_radix(Tail(text), U16))

RECURSIVE CanonicalOperands(_, _, _)
CanonicalOperands(format, operands, k) ==
    IF k > Len(operands) THEN <<>>
    ELSE Canonical(format, k, operands[k]) \o CanonicalOperands(format, operands, k + 1)

\* the bytes the arm of execute() of the instruction m fetches after the
\* opcode: one for a register index, two for every other operand
RECURSIVE FetchedBytes(_)
FetchedBytes(kinds) ==
    IF kinds = <<>> THEN 0
    ELSE (IF Head(kinds) = "reg" THEN 1 ELSE 2) + FetchedBytes(Tail(kinds))

Consumed(m) == 1 + FetchedBytes(Form[m])

(***************************************************************************)
(* C21.  A statement of any format whose operands are registers, literals  *)
(* and addresses compiles to the opcode of its instruction followed by     *)
(* the operands in the order they are written: a 16-bit literal or an      *)
(* address as two bytes, high byte first, an 8-bit literal as one byte, a  *)
(* register as the byte that is its offset in the register file; and the   *)
(* number of bytes is the size the table declares for the instruction,     *)
(* which is the number of bytes the CPU fetches when it executes it.       *)
(***************************************************************************)
C21_StatementCompilesToOpcodeAndOperands ==
    (OneStatement /\ \A k \in DOMAIN source[1].operands : Plain(source[1].operands[k]))
        => /\ compiled.ok
           /\ compiled.bytes
                  = <<instruction[source[1].mnemonic].opcode>>
                        \o CanonicalOperands(source[1].format, source[1].operands, 1)
           /\ Len(compiled.bytes) = instruction[source[1].mnemonic].size
           /\ Len(compiled.bytes) = Consumed(source[1].mnemonic)

\* the declared sizes of the instructions among the first n lines
RECURSIVE PrecedingSize(_, _)
PrecedingSize(program, n) ==
    IF n = 0 THEN 0
    ELSE PrecedingSize(program, n - 1)
             + (IF program[n].format = "label" THEN 0
                ELSE instruction[program[n].mnemonic].size)

\* the label an operand text refers to: [!name] or &[!name]
Refers(text) == ~Plain(text)
Referred(text) ==
    IF Head(text) = "&" THEN SubSeq(text, 4, Len(text) - 1)
    ELSE SubSeq(text, 3, Len(text) - 1)

\* the lines that define the label name
Defining(program, name) == {k \in DOMAIN program : program[k] = LabelLine(name)}

\* every label an operand refers to is defined by a line
Resolvable(program) ==
    \A k \in DOMAIN program : \A j \in DOMAIN program[k].operands :
        Refers(program[k].operands[j])
            => Defining(program, Referred(program[k].operands[j])) # {}

\* the address of the label name: the sizes of the instructions before it
LabelAddress(program, name) ==
    PrecedingSize(program, (CHOOSE k \in Defining(program, name) : TRUE) - 1)

\* the bytes the operands of a line are to be encoded as, from the j-th on
RECURSIVE ExpectedOperands(_, _, _)
ExpectedOperands(program, k, j) ==
    IF j > Len(program[k].operands) THEN <<>>
    ELSE (IF Refers(program[k].operands[j])
          THEN to_be_bytes(LabelAddress(program, Referred(program[k].operands[j])))
          ELSE Canonical(program[k].format, j, program[k].operands[j]))
             \o ExpectedOperands(program, k, j + 1)

\* a program of the lines with labels
Labelled == \A k \in DOMAIN source : source[k] \in Lines

(***************************************************************************)
(* C22.  In a compiled program every label stands for the sum of the       *)
(* declared sizes of the instructions before it: labels add no bytes,      *)
(* each instruction is written at the sum of the sizes of the              *)
(* instructions before it, and an operand that refers to a label is        *)
(* written as the two bytes of that address, high byte first, whether the  *)
(* label is defined before or after the reference.  Compilation fails      *)
(* exactly when a label that is referred to is not defined.                *)
(***************************************************************************)
C22_LabelsResolveToPrecedingSizes ==
    (Compiles /\ Labelled)
        => IF Resolvable(source)
           THEN /\ compiled.ok
                /\ Len(compiled.bytes) = PrecedingSize(source, Len(source))
                /\ \A k \in DOMAIN source :
                      source[k].format # "label"
                          => SubSeq(compiled.bytes, PrecedingSize(source, k - 1) + 1,
                                    PrecedingSize(source, k))
                                 = <<instruction[source[k].mnemonic].opcode>>
                                       \o ExpectedOperands(source, k, 1)
           ELSE ~compiled.ok

\* a program was compiled in which a label at an address other than 0 is
\* referred to before and after the line that defines it
C22_ReferredBeforeAndAfter ==
    /\ Compiles
    /\ Labelled
    /\ compiled.ok
    /\ \E j, k, l \in DOMAIN source :
          /\ j < l /\ l < k
          /\ source[l].format = "label"
          /\ PrecedingSize(source, l) > 0
          /\ \E name \in {SubSeq(source[l].text, 1, Len(source[l].text) - 1)} :
                /\ \E o \in DOMAIN source[j].operands :
                      Refers(source[j].operands[o])
                          /\ Referred(source[j].operands[o]) = name
                /\ \E o \in DOMAIN source[k].operands :
                      Refers(source[k].operands[o])
                          /\ Referred(source[k].operands[o]) = name

(***************************************************************************)
(* C23.  When a program is compiled, get_from_string, by which a Register  *)
(* operand is encoded, maps each of the fourteen register names to the     *)
(* offset of the register of that name in the register file (IP 0, ACC 2,  *)
(* R1..R8 4..18, SP 20, FP 22, MB 24, IM 26), and no two names to the      *)
(* same offset.                                                            *)
(***************************************************************************)
C23_NamesMapToOwnOffsetsInjectively ==
    Compiles
        => /\ \A n \in DOMAIN Name : get_from_string(Name[n]) = register[n]
           /\ \A a, b \in DOMAIN Name :
                 get_from_string(Name[a]) = get_from_string(Name[b]) => a = b
           /\ get_from_string(Name.MB) = 24

(***************************************************************************)
(* The memory mapper's bank broadcast                                      *)
(***************************************************************************)
\* the regions of the mapper holding a banked memory
BankedRegions(mm) ==
    {i \in DOMAIN mm.regions : mm.regions[i].device.kind = "BankedMemory"}

\* region i of the mapper lies whole under a region mapped after it
Shadowed(mm, i) ==
    \E j \in 1 .. i - 1 : /\ mm.regions[j].start <= mm.regions[i].start
                          /\ mm.regions[i].end <= mm.regions[j].end

\* C26: after MemoryMapper.set_mb(v) every BankedMemory mapped in the mapper
\* has current bank v, in whatever order the regions were mapped and whether
\* or not a later region shadows them; nothing else of the mapper changes
C26_SetMbReachesEveryRegion ==
    (call.op = "set_mb" /\ call.before.kind = "MemoryMapper") =>
        /\ \A i \in BankedRegions(dut) : dut.regions[i].device.mb = call.value
        /\ Len(dut.regions) = Len(call.before.regions)
        /\ \A i \in DOMAIN dut.regions :
              /\ dut.regions[i].start = call.before.regions[i].start
              /\ dut.regions[i].end = call.before.regions[i].end
              /\ dut.regions[i].remap = call.before.regions[i].remap
              /\ dut.regions[i].device.kind = call.before.regions[i].device.kind

\* set_mb(1) on a mapper of two banked memories at bank 0, the one mapped
\* first shadowed whole by the one mapped after it
C26_ShadowedBankSwitched ==
    /\ call.op = "set_mb"
    /\ call.value = 1
    /\ call.before.kind = "MemoryMapper"
    /\ BankedRegions(call.before) = {1, 2}
    /\ Shadowed(call.before, 2)
    /\ \A i \in {1, 2} : call.before.regions[i].device.mb = 0
    /\ dut.regions[2].device.mb = 1

(***************************************************************************)
(* 16-bit accesses through the memory mapper                               *)
(***************************************************************************)
\* the byte the device holds at the address, read through get_u8
HeldAt(device, a) == Leaf_get_u8(device, a)

WordAccess ==
    /\ call.op \in {"get_u16", "set_u16"}
    /\ call.before.kind = "MemoryMapper"
    /\ Selected # 0

\* C27: a get_u16 or set_u16 of the mapper at address a goes whole to the
\* device of the region a selects: the word read is made of two adjacent bytes
\* of that device, the word written lands in two adjacent bytes of that
\* device, and the device of no other region changes, also when a is the last
\* address of its region and a + 1 lies in another
C27_WordAccessStaysInOneRegion ==
    WordAccess =>
        /\ Len(dut.regions) = Len(call.before.regions)
        /\ \A j \in DOMAIN dut.regions :
              j # Selected => dut.regions[j] = call.before.regions[j]
        /\ call.op = "get_u16" =>
              /\ dut = call.before
              /\ call.result.ok =>
                    call.result.v =
                        HeldAt(SelectedRegion.device, Addressed).v * U8
                        + HeldAt(SelectedRegion.device, Addressed + 1).v
        /\ (call.op = "set_u16" /\ call.result.ok) =>
              /\ HeldAt(dut.regions[Selected].device, Addressed).v
                    = Hi(call.value)
              /\ HeldAt(dut.regions[Selected].device, Addressed + 1).v
                    = Lo(call.value)

\* a word with a low byte other than 0 written at the last address of the
\* region in front, the address after it belonging to the region behind
C27_WrittenAtTheEndOfARegion ==
    /\ WordAccess
    /\ call.op = "set_u16"
    /\ call.result.ok
    /\ Lo(call.value) # 0
    /\ call.address = SelectedRegion.end
    /\ find_region(call.before, call.address + 1) \notin {0, Selected}
    /\ dut.regions[find_region(call.before, call.address + 1)]
          = call.before.regions[find_region(call.before, call.address + 1)]

(***************************************************************************)
(* The frame push_state builds                                             *)
(***************************************************************************)
\* the state the push_state of the last step started from
Pushed == frames[Len(frames)]

\* the word the memory holds n slots below the SP push_state started from
Slot(n) == get_u16(memory, (Pushed.SP - 2 * n) % U16)

\* C28: push_state started with SP = s and stack_frame_size = f leaves R1..R8
\* at s, s - 2, ..., s - 14, the IP it was called with at s - 16 and f + 20 at
\* s - 18, SP = FP = s - 20 and stack_frame_size = 0, the sums and
\* differences taken in 16 bits
C28_PushStateLaysOutTheFrame ==
    (Stepped /\ PushedNow # {}) =>
        /\ PushedNow = {Len(frames)}
        /\ \A n \in DOMAIN GENERAL_PURPOSE_LIST :
              Slot(n - 1) = Val(Pushed.general[n])
        /\ Slot(8) = Val(Pushed.IP)
        /\ Slot(9) = Val((Pushed.stack_frame_size + 20) % U16)
        /\ Reg(registers, register.SP) = (Pushed.SP - 20) % U16
        /\ Reg(registers, register.FP) = (Pushed.SP - 20) % U16
        /\ stack_frame_size = 0

\* a call made with a word on the stack and the subroutine's address in R8
C28_CalledWithAWordPushed ==
    /\ Stepped
    /\ PushedNow # {}
    /\ Pushed.stack_frame_size = 2
    /\ Pushed.general[8] # 0
    /\ Pushed.IP # Pushed.general[8]
    /\ Slot(7) = Val(Pushed.general[8])
    /\ Slot(9) = Val(22)

(***************************************************************************)
(* The stack: push_to_stack and pop_from_stack called on a new CPU         *)
(***************************************************************************)
StackLen == 8         \* bytes of the memory the stack lives in
MaxStackCalls == 6    \* calls of push_to_stack and pop_from_stack
Pushable == {258, 4660, 65280}

InitStack ==
    /\ overflow_checks \in BOOLEAN
    /\ \E cpu \in {CPU_new(Memory_new(StackLen))} :
          /\ memory = cpu.memory
          /\ registers = cpu.registers
          /\ stack_frame_size = cpu.stack_frame_size
          /\ is_in_interrupt_handler = cpu.is_in_interrupt_handler
          /\ panicked = cpu.panicked
    /\ halted = FALSE
    /\ frames = <<>>
    /\ history = <<>>
    /\ dut = NoDevice
    /\ written = <<>>
    /\ mapped = <<>>
    /\ call = <<>>
    /\ expression = <<>>
    /\ grouped = NotGrouped
    /\ AssemblerIdle

\* the call op ends in CPU state s; value is what was pushed or popped
Answered(s, op, value) ==
    /\ memory' = s.memory
    /\ registers' = s.registers
    /\ stack_frame_size' = s.stack_frame_size
    /\ panicked' = s.panicked
    /\ history' = Append(history, [op |-> op, value |-> value,
                                   registers |-> registers,
                                   stack_frame_size |-> stack_frame_size])
    /\ UNCHANGED <<is_in_interrupt_handler, halted, frames, overflow_checks,
                   dut, written, mapped, call, expression, grouped>>
    /\ AssemblerUnchanged

StackCallable == ~panicked /\ Len(history) < MaxStackCalls

Call_push_to_stack ==
    /\ StackCallable
    /\ \E value \in Pushable :
          Answered(push_to_stack(Cur, value), "push_to_stack", value)

Call_pop_from_stack ==
    /\ StackCallable
    /\ \E r \in {pop_from_stack(Cur)} :
          Answered(r.s, "pop_from_stack", r.v)

NextStack == Call_push_to_stack \/ Call_pop_from_stack

SpecStack == InitStack /\ [][NextStack]_vars

\* the last 2 * k calls were k pushes and then k pops, and all returned
PushedThenPopped(k) ==
    /\ Stepped
    /\ Len(history) >= 2 * k
    /\ \A j \in 1 .. k :
          /\ history[Len(history) - 2 * k + j].op = "push_to_stack"
          /\ history[Len(history) - k + j].op = "pop_from_stack"

\* C29: push_to_stack(v) stores v at the old SP, high byte first, and lowers
\* SP by 2; k pops that follow k pushes return the pushed values last first
C29_StackIsLastInFirstOut ==
    /\ (Stepped /\ LastStep.op = "push_to_stack") =>
          /\ get_u8(memory, Reg(LastStep.registers, register.SP))
                = Val(Hi(LastStep.value))
          /\ get_u8(memory, Reg(LastStep.registers, register.SP) + 1)
                = Val(Lo(LastStep.value))
          /\ Reg(registers, register.SP)
                = (Reg(LastStep.registers, register.SP) - 2) % U16
    /\ \A k \in 1 .. MaxStackCalls \div 2 :
          PushedThenPopped(k) =>
              \A j \in 1 .. k :
                  history[Len(history) - k + j].value
                      = history[Len(history) - k + 1 - j].value

\* three different words pushed and popped again
C29_ThreeWordsCameBackReversed ==
    /\ PushedThenPopped(3)
    /\ Len(history) = 6
    /\ {history[j].value : j \in 1 .. 3} = Pushable
    /\ <<history[4].value, history[5].value, history[6].value>>
          = <<history[3].value, history[2].value, history[1].value>>

(***************************************************************************)
(* The operand order of the subtractions                                   *)
(***************************************************************************)
Subtractions == {"SUB_LIT_REG", "SUB_REG_LIT", "SUB_REG_REG"}

\* a - b in 16 bits
Minus(a, b) == (a - b + U16) % U16

\* the first and the second operand of the subtraction of the last step, in
\* the order they are encoded: for SUB_LIT_REG the literal and the value of
\* the register, for SUB_REG_LIT the value of the register and the literal,
\* for SUB_REG_REG the values of the two registers
Minuend == Operand(LastStep, Form[MnemonicOf(LastStep.opcode)], 1)
Subtrahend == Operand(LastStep, Form[MnemonicOf(LastStep.opcode)], 2)

\* C30: a subtraction that completes leaves in ACC its first encoded operand
\* minus its second: SUB_LIT_REG lit r the literal minus the register,
\* SUB_REG_LIT r lit the register minus the literal, SUB_REG_REG r1 r2 the
\* first register minus the second
C30_FirstOperandMinusSecond ==
    (/\ Stepped /\ Executed(Subtractions)
     /\ NamesRegisters(LastStep, Form[MnemonicOf(LastStep.opcode)]))
        => /\ Form.SUB_LIT_REG = <<"lit", "reg">>
           /\ Form.SUB_REG_LIT = <<"reg", "lit">>
           /\ Form.SUB_REG_REG = <<"reg", "reg">>
           /\ Reg(registers, register.ACC) = Minus(Minuend, Subtrahend)

\* SUB_LIT_REG 0xFFFF R1 with R1 = 1 left 0xFFFE in ACC, not 2
C30_RegisterTakenFromLiteral ==
    /\ Stepped /\ Executed({"SUB_LIT_REG"})
    /\ Encoded16(LastStep, Form.SUB_LIT_REG, 1) = U16 - 1
    /\ Encoded16(LastStep, Form.SUB_LIT_REG, 2) = register.R1
    /\ Reg(LastStep.registers, register.R1) = 1
    /\ Reg(registers, register.ACC) = U16 - 2

(***************************************************************************)
(* The instructions that work in place                                     *)
(***************************************************************************)
LeftShifts == {"LSF_REG_REG", "LSF_REG_LIT8"}
RightShifts == {"RSF_REG_REG", "RSF_REG_LIT8"}
InPlace == {"INC_REG", "DEC_REG"} \cup LeftShifts \cup RightShifts

\* the register the instruction of the last step names first, the value it
\* held before the step, and the amount a shift is made by: the value of the
\* second register, or the 16-bit word fetched after the register
Named == Encoded16(LastStep, Form[MnemonicOf(LastStep.opcode)], 1)
Previous == Reg(LastStep.registers, Named)
Amount == Operand(LastStep, Form[MnemonicOf(LastStep.opcode)], 2)

\* C31: INC_REG, DEC_REG and the four shifts that complete leave their
\* result in the register named first; every other register except IP, ACC
\* among them, and the memory are as before; a shift by 0..15 leaves the
\* previous value shifted logically in 16 bits
C31_ResultInTheNamedRegister ==
    (/\ Stepped /\ Executed(InPlace)
     /\ NamesRegisters(LastStep, Form[MnemonicOf(LastStep.opcode)]))
        => /\ RegistersKeptExcept({Named, register.IP})
           /\ RestKept
           /\ Executed({"INC_REG"}) =>
                 Reg(registers, Named) = (Previous + 1) % U16
           /\ Executed({"DEC_REG"}) =>
                 Reg(registers, Named) = Minus(Previous, 1)
           /\ (Executed(LeftShifts) /\ Amount \in 0 .. 15) =>
                 Reg(registers, Named) = (Previous * 2^Amount) % U16
           /\ (Executed(RightShifts) /\ Amount \in 0 .. 15) =>
                 Reg(registers, Named) = Previous \div 2^Amount

\* LSF_REG_LIT8 R1 3 with R1 = 0xFFFF left 0xFFF8 in R1 and ACC at 0
C31_ShiftedOutOfTheRegister ==
    /\ Stepped /\ Executed({"LSF_REG_LIT8"})
    /\ Named = register.R1
    /\ Previous = U16 - 1
    /\ Amount = 3
    /\ Reg(registers, register.R1) = U16 - 8
    /\ Reg(registers, register.ACC) = 0

(***************************************************************************)
(* CPU::new on memories of every length                                    *)
(***************************************************************************)
MaxLength == 64    \* the short memories a CPU is constructed on

\* the lengths of the memories: the short ones, and those around 2^16,
\* where `len() as u16` starts to truncate
Lengths == 0 .. MaxLength \cup {U16 - 1, U16, U16 + 1, U16 + 2, U16 + MaxLength}

Constructed == memory # NoDevice

InitNew ==
    /\ overflow_checks \in BOOLEAN
    /\ memory = NoDevice
    /\ registers = Memory_new(SIZE)
    /\ stack_frame_size = 0
    /\ is_in_interrupt_handler = FALSE
    /\ panicked = FALSE
    /\ halted = FALSE
    /\ frames = <<>>
    /\ history = <<>>
    /\ dut = NoDevice
    /\ written = <<>>
    /\ mapped = <<>>
    /\ call = <<>>
    /\ expression = <<>>
    /\ grouped = NotGrouped
    /\ AssemblerIdle

\* CPU::new(Box::new(Memory::new(length)))
Construct ==
    /\ ~Constructed
    /\ \E length \in Lengths :
          \E cpu \in {CPU_new(Memory_new(length))} :
              /\ memory = NoDevice
              /\ memory' = cpu.memory
              /\ registers' = cpu.registers
              /\ stack_frame_size' = cpu.stack_frame_size
              /\ is_in_interrupt_handler' = cpu.is_in_interrupt_handler
              /\ panicked' = cpu.panicked
    /\ UNCHANGED <<halted, frames, history, overflow_checks, dut, written,
                   mapped, call, expression, grouped>>
    /\ AssemblerUnchanged

NextNew == Construct

SpecNew == InitNew /\ [][NextNew]_vars

\* the length of the memory the CPU was constructed on
L == len(memory).v

\* everything C32 says of the new CPU but the values of SP and FP
FreshButForTheStack ==
    /\ Reg(registers, register.IM) = 255
    /\ stack_frame_size = 0
    /\ ~is_in_interrupt_handler
    /\ \A r \in {register.IP, register.ACC, register.MB}
                 \cup {GENERAL_PURPOSE_LIST[i] : i \in DOMAIN GENERAL_PURPOSE_LIST} :
          Reg(registers, r) = 0

\* C32 as stated: a CPU constructed over a memory of length L has
\* SP = FP = L - 2, IM = 0xff, stack_frame_size = 0, no interrupt handler
\* running, and IP, ACC, R1..R8 and MB at 0
C32_FreshCPUHasStackAtLMinus2 ==
    (Constructed /\ ~panicked) =>
        /\ Reg(registers, register.SP) = L - 2
        /\ Reg(registers, register.FP) = L - 2
        /\ FreshButForTheStack

\* C32 amended: SP = FP = L - 2 for the lengths 2 .. 2^16; for every length
\* SP = FP = (L mod 2^16) - 2 in 16 bits; the rest as stated
C32_FreshCPUHasStackAtLMinus2In16Bits ==
    (Constructed /\ ~panicked) =>
        /\ Reg(registers, register.SP) = Minus(L % U16, 2)
        /\ Reg(registers, register.FP) = Minus(L % U16, 2)
        /\ L \in 2 .. U16 => Reg(registers, register.SP) = L - 2
        /\ FreshButForTheStack

\* a CPU constructed over a memory of 64 bytes, SP = FP = 62
C32_ConstructedOver64Bytes ==
    /\ Constructed /\ ~panicked
    /\ L = 64
    /\ Reg(registers, register.SP) = 62
    /\ Reg(registers, register.FP) = 62

(***************************************************************************)
(* Bytes that are no instruction                                           *)
(***************************************************************************)
\* the last step fetched a byte, fetch8 returned it, and the byte is not an
\* opcode of the instruction table
FetchedNoOpcode ==
    /\ history # <<>>
    /\ get_u8(LastStep.memory, Reg(LastStep.registers, register.IP)).ok
    /\ get_u8(LastStep.memory, Reg(LastStep.registers, register.IP)).v
          \notin Opcodes
    /\ (Reg(LastStep.registers, register.IP) + 1 < U16 \/ ~overflow_checks)

\* C33: a fetched byte that is no opcode of the instruction table ends the
\* run with a panic; IP is 1 past the byte and nothing else was changed
C33_UnknownByteIsFatal ==
    FetchedNoOpcode =>
        /\ panicked
        /\ ~halted
        /\ Reg(registers, register.IP)
              = (Reg(LastStep.registers, register.IP) + 1) % U16
        /\ RegistersKeptExcept({register.IP})
        /\ RestKept
        /\ frames = <<>> \/ frames[Len(frames)].step # Len(history)

\* a program ran into a byte that is no opcode after an instruction that
\* changed a register, and stopped there
C33_RanIntoAnUnknownByte ==
    /\ FetchedNoOpcode
    /\ panicked
    /\ Len(history) >= 2
    /\ history[1].registers # LastStep.registers
    /\ \E r \in {register.ACC, register.R1} : Reg(registers, r) # 0
    /\ Reg(registers, register.IP) = Reg(LastStep.registers, register.IP) + 1

(***************************************************************************)
(* Calls made one after the other                                          *)
(***************************************************************************)
\* every step so far was a register load, a call, or the RET of the
\* subroutine called by the step before it: the subroutines are a single RET
\* and use no stack, and no call is made inside another
CallsInSequence ==
    /\ Only({"CAL_LIT", "CAL_REG", "RET", "MOVE_LIT_REG"})
    /\ \A j \in DOMAIN history :
          /\ (history[j].opcode \in Calls /\ j < Len(history))
                => history[j + 1].opcode = instruction.RET.opcode
          /\ history[j].opcode = instruction.RET.opcode
                => (j > 1 /\ history[j - 1].opcode \in Calls)

\* C34: after the RET of each of the calls made in sequence from a new CPU,
\* SP and FP are what they were before its CAL, so they are those of the new
\* CPU after every pair
C34_SequentialCallsKeepSPAndFP ==
    (Stepped /\ CallsInSequence /\ LastStep.opcode = instruction.RET.opcode)
        => /\ Reg(registers, register.SP)
                 = Reg(history[Len(history) - 1].registers, register.SP)
           /\ Reg(registers, register.FP)
                 = Reg(history[Len(history) - 1].registers, register.FP)
           /\ Reg(registers, register.SP) = Reg(history[1].registers, register.SP)
           /\ Reg(registers, register.FP) = Reg(history[1].registers, register.FP)

(***************************************************************************)
(* An interrupt and the return from it                                     *)
(***************************************************************************)
\* step i dispatched an interrupt outside a handler, the last step was the
\* first RET_INT after it, and the steps between them were register loads,
\* which use no stack
InterruptedAndReturned(i) ==
    /\ Stepped
    /\ i < Len(history)
    /\ DispatchedInterrupt(history[i])
    /\ ~history[i].is_in_interrupt_handler
    /\ Executed({"RET_INT"})
    /\ \A j \in i + 1 .. Len(history) - 1 :
          history[j].opcode = instruction.MOVE_LIT_REG.opcode

\* C35: after the RET_INT that follows an interrupt dispatched outside a
\* handler, with no stack use in between, SP and FP are what they were
\* before the INT
C35_InterruptAndReturnKeepSPAndFP ==
    \A i \in DOMAIN history :
        InterruptedAndReturned(i)
            => /\ Reg(registers, register.SP)
                     = Reg(history[i].registers, register.SP)
               /\ Reg(registers, register.FP)
                     = Reg(history[i].registers, register.FP)

(***************************************************************************)
(* The bank a banked memory has selected                                   *)
(***************************************************************************)
\* the last call was a read or write of the banked memory at addresses
\* inside a bank
InRangeAccess ==
    /\ call.op \in {"get_u8", "get_u16", "set_u8", "set_u16"}
    /\ call.before.kind = "BankedMemory"
    /\ call.address + (IF call.op \in {"get_u16", "set_u16"} THEN 1 ELSE 0)
          < call.before.size

\* C36: the bank a BankedMemory has selected is one of its banks in every
\* reachable state, whatever set_mb was called with, and every read or write
\* inside the bank size is served
C36_SelectedBankExists ==
    /\ dut.kind = "BankedMemory" => dut.mb < Len(dut.banks)
    /\ InRangeAccess => call.result.ok

(***************************************************************************)
(* The banked window of the memory map of `vm run`                         *)
(***************************************************************************)
\* the window the banked memory is mapped at, and the addresses of it a
\* 16-bit access fits in
BankedWindow == 65280 .. 65535
WordsOfTheWindow == 65280 .. 65534

\* the last step was a PSH_LIT on the map of `vm run`, pushing at an SP
\* inside the banked window, an existing bank being selected
PushedIntoTheWindow ==
    /\ history # <<>>
    /\ LastStep.memory.kind = "MemoryMapper"
    /\ Executed({"PSH_LIT"})
    /\ Reg(LastStep.registers, register.SP) \in WordsOfTheWindow
    /\ Reg(LastStep.registers, register.MB) < 8

\* C37: on the map of `vm run` a 16-bit write into the banked window, such
\* as a push at the SP the CPU starts with, is served by the banked memory
\* and causes no out-of-range error: the word can be read back there
C37_BankedWindowServesThePush ==
    PushedIntoTheWindow =>
        /\ ~panicked
        /\ get_u16(memory, Reg(LastStep.registers, register.SP))
              = Val(Operand(LastStep, Form.PSH_LIT, 1))

(***************************************************************************)
(* The grouping keeps what it is given                                     *)
(***************************************************************************)
\* the operations of a tree
RECURSIVE Operations(_)
Operations(tree) ==
    IF tree.type = "BinaryOperation"
    THEN 1 + Operations(tree.a) + Operations(tree.b)
    ELSE 0

\* the in-order traversal of a tree: left subtree, operator, right subtree
RECURSIVE InOrder(_)
InOrder(tree) ==
    IF tree.type = "BinaryOperation"
    THEN InOrder(tree.a) \o <<tree.op>> \o InOrder(tree.b)
    ELSE <<tree>>

\* C38: for every well-formed list of odd length, operands at the even and
\* operators at the odd positions counted from 0, the in-order traversal of
\* the tree group_binary_operations returns is the list itself: nothing is
\* dropped, duplicated or reordered, the tree has one operation for each
\* operator of the list, and a list of one element comes back as that element
C38_GroupingPreservesTheList ==
    Grouped
        => /\ grouped # Aborted
           /\ InOrder(grouped) = expression
           /\ Len(InOrder(grouped)) = Len(expression)
           /\ 2 * Operations(grouped) + 1 = Len(expression)
           /\ Len(expression) = 1 => grouped = expression[1]

\* a list of four operands with operators of both priorities and two
\* different operands has been grouped
C38_GroupedFourOperands ==
    /\ Grouped
    /\ Len(expression) = 7
    /\ {expression[2].op, expression[4].op, expression[6].op} = {"Plus", "Star"}
    /\ expression[1] # expression[7]
    /\ InOrder(grouped) = expression

====
